---- MODULE Spec2Model ----
(***************************************************************************)
(* A model of xlsxzero (XLSX -> Markdown/HTML/CSV/JSON converter).         *)
(*                                                                         *)
(* Text is modelled as a sequence of one-character strings where the code  *)
(* inspects characters (archive member names), and as an atomic value      *)
(* where the code only copies or compares it (cell display text).          *)
(*                                                                         *)
(* The module holds several specifications over one set of variables:      *)
(*   SpecPath   validate_zip_path applied to bounded member names          *)
(*   SpecGate   the Security Gate loop of XlsxMetadataParser::new          *)
(*   Spec       Converter::convert, with its parallel sheet tasks          *)
(*   SpecGrid   LogicalGrid::build and the renderers, over bounded cells   *)
(*              and merge regions                                          *)
(*   SpecSheet  one sheet task: worksheet decode, parse_sheet, grid,       *)
(*              render                                                     *)
(*   SpecCell   one cell: extract_cell_data_with_formula, format_cell      *)
(*   SpecFormat NumberFormatter::format through the format interpreter     *)
(*   SpecDate   DateFormatter::format on two serial values                 *)
(*   SpecSelect WorkbookParser::select_sheets on a selector and a workbook *)
(*   SpecBuild  ConverterBuilder: new, with_range, with_date_format, build *)
(*   SpecMarkdown LogicalGrid::render_markdown, character by character     *)
(*   SpecA1     to_a1_notation followed by parse_cell_ref                  *)
(*   SpecFormatCell CellFormatter::format_cell on one RawCell              *)
(*   SpecShared a shared-string cell against the shared-strings part       *)
(* Each specification leaves the variables of the others at their idle     *)
(* value.                                                                  *)
(***************************************************************************)
EXTENDS Integers, Sequences, FiniteSets, TLC

VARIABLES
    path,        \* SpecPath: the member name handed to validate_zip_path
    pathResult,  \* SpecPath: "none" before the call, then its result
    members,     \* SpecGate: the archive directory, a sequence of [name, size]
    gateResult,  \* SpecGate: "none" before the gate ran, then its result
    input,       \* Spec: the input bytes, as what the code reads out of them
    config,      \* Spec: ConversionConfig (sheet_selector, output_format)
    pc,          \* Spec: position of Converter::convert
    events,      \* Spec: what has touched the archive so far, in order
    sheet_names, \* Spec: the resolved selector (sheet indices, zero-based)
    task,        \* Spec: state of the parallel task of each selected position
    arrival,     \* Spec: positions of the finished tasks, in finishing order
    first_error, \* Spec: the error the parallel collect keeps, or "none"
    sheet_outputs, \* Spec: the collected and sorted Vec<(usize, String)>
    written,     \* Spec: turns of the write loop done
    sink,        \* Spec: what has been written to the output sink, in order
    result,      \* Spec: "none" while convert runs, then "Ok" or the error
    formatted_cells, \* SpecGrid: the (coord, content) pairs handed to build
    regions,     \* SpecGrid: metadata.merged_regions, a sequence of [start, end]
    gconfig,     \* SpecGrid: ConversionConfig (merge_strategy, output_format)
    gpc,         \* SpecGrid: "start", "built" or "panic", then "rendered"
    grid,        \* SpecGrid: the LogicalGrid build returned
    rendered,    \* SpecGrid: what the renderer wrote to the task's buffer
    worksheet,   \* SpecSheet: the workbook as far as one sheet task reads it
    sconfig,     \* SpecSheet: ConversionConfig (include_hidden, range)
    spc,         \* SpecSheet: "start", "decoded", then "parsed"
    tables,      \* SpecSheet: the decoder's hidden_rows and hidden_cols maps
    xlsx_cell,   \* SpecCell: one worksheet cell, its style and the workbook flag
    cconfig,     \* SpecCell: ConversionConfig (date_format)
    cpc,         \* SpecCell: "start", "extracted", then "formatted"
    raw_cell,    \* SpecCell: the RawCellData extracted for the cell
    formatted,   \* SpecCell: the string format_cell returned
    args,        \* function specifications: the arguments of the call
    apc,         \* function specifications: which call, and "done" after it
    ret          \* function specifications: what the call returned

pathVars == <<path, pathResult>>
gateVars == <<members, gateResult>>
convVars == <<input, config, pc, events, sheet_names, task, arrival,
              first_error, sheet_outputs, written, sink, result>>

gridVars == <<formatted_cells, regions, gconfig, gpc, grid, rendered>>

sheetVars == <<worksheet, sconfig, spc, tables>>
cellVars == <<xlsx_cell, cconfig, cpc, raw_cell, formatted>>

fnVars == <<args, apc, ret>>

vars == <<pathVars, gateVars, convVars, gridVars, sheetVars, cellVars, fnVars>>

otherThanPath == <<gateVars, convVars, gridVars, sheetVars, cellVars, fnVars>>
otherThanGate == <<pathVars, convVars, gridVars, sheetVars, cellVars, fnVars>>
otherThanConv == <<pathVars, gateVars, gridVars, sheetVars, cellVars, fnVars>>
otherThanSheet == <<pathVars, gateVars, convVars, cellVars, fnVars>>
otherThanFn == <<pathVars, gateVars, convVars, gridVars, sheetVars, cellVars>>
otherThanCell == <<pathVars, gateVars, convVars, gridVars, sheetVars, fnVars>>

(***************************************************************************)
(* Generic helpers.                                                        *)
(***************************************************************************)
RECURSIVE SeqsUpTo(_, _)
SeqsUpTo(S, n) ==
    IF n = 0 THEN {<<>>}
    ELSE LET shorter == SeqsUpTo(S, n - 1)
         IN  shorter \cup {Append(s, x) : s \in {t \in shorter : Len(t) = n - 1}, x \in S}

\* str::starts_with
StartsWith(s, prefix) ==
    /\ Len(prefix) <= Len(s)
    /\ SubSeq(s, 1, Len(prefix)) = prefix

\* str::contains
Contains(s, sub) ==
    \E i \in 1..(Len(s) - Len(sub) + 1) : SubSeq(s, i, i + Len(sub) - 1) = sub

Max(S) == CHOOSE x \in S : \A y \in S : y <= x
Min(S) == CHOOSE x \in S : \A y \in S : x <= y

RECURSIVE Flatten(_)
Flatten(ss) == IF ss = <<>> THEN <<>> ELSE Head(ss) \o Flatten(Tail(ss))

(***************************************************************************)
(* security.rs: validate_zip_path.  The result is "ok" or the rule that    *)
(* rejected the name.                                                      *)
(***************************************************************************)
Backslash == "\\"

\* A mutant of validate_zip_path: the backslash rule is missing.
validate_zip_path_no_backslash(p) ==
    IF p = <<>> THEN "empty"
    ELSE IF \/ StartsWith(p, <<"/">>)
            \/ StartsWith(p, <<"C", ":", Backslash>>)
            \/ StartsWith(p, <<"c", ":", Backslash>>) THEN "absolute"
    ELSE IF Contains(p, <<".", ".">>) THEN "traversal"
    ELSE "ok"

validate_zip_path(p) ==
    IF p = <<>> THEN "empty"
    ELSE IF \/ StartsWith(p, <<"/">>)
            \/ StartsWith(p, <<"C", ":", Backslash>>)
            \/ StartsWith(p, <<"c", ":", Backslash>>) THEN "absolute"
    ELSE IF Contains(p, <<".", ".">>) THEN "traversal"
    ELSE IF Contains(p, <<Backslash>>) THEN "backslash"
    ELSE "ok"

(***************************************************************************)
(* SpecPath: every member name over PathChars up to MaxPathLen characters  *)
(* is validated once.                                                      *)
(***************************************************************************)
MaxPathLen == 3
PathChars == {"/", "C", "c", "D", ":", Backslash, ".", "x"}
DriveLetters == {"C", "c", "D", "x"}

IdlePath == path = <<>> /\ pathResult = "idle"
IdleGate == members = <<>> /\ gateResult = "idle"
IdleConv ==
    /\ input = "idle" /\ config = "idle" /\ pc = "idle" /\ events = <<>>
    /\ sheet_names = <<>> /\ task = <<>> /\ arrival = <<>>
    /\ first_error = "idle" /\ sheet_outputs = <<>> /\ written = 0
    /\ sink = <<>> /\ result = "idle"

IdleGrid ==
    /\ formatted_cells = <<>> /\ regions = <<>> /\ gconfig = "idle"
    /\ gpc = "idle" /\ grid = <<>> /\ rendered = <<>>

IdleSheet ==
    worksheet = "idle" /\ sconfig = "idle" /\ spc = "idle" /\ tables = "idle"

IdleFn == args = "idle" /\ apc = "idle" /\ ret = "idle"

IdleCell ==
    /\ xlsx_cell = "idle" /\ cconfig = "idle" /\ cpc = "idle"
    /\ raw_cell = "idle" /\ formatted = "idle"

InitPath ==
    /\ path \in SeqsUpTo(PathChars, MaxPathLen)
    /\ pathResult = "none"
    /\ IdleGate /\ IdleConv /\ IdleGrid /\ IdleSheet /\ IdleCell /\ IdleFn

Validate ==
    /\ pathResult = "none"
    /\ pathResult' = validate_zip_path(path)
    /\ UNCHANGED <<path, otherThanPath>>

NextPath == Validate

SpecPath == InitPath /\ [][NextPath]_vars

\* The features the specification lists for a rejected member name.
HasDrivePrefix(p) ==
    /\ Len(p) >= 3
    /\ p[1] \in DriveLetters
    /\ p[2] = ":"
    /\ p[3] = Backslash

SpecRejects(p) ==
    \/ p = <<>>
    \/ StartsWith(p, <<"/">>)
    \/ HasDrivePrefix(p)
    \/ Contains(p, <<".", ".">>)
    \/ Contains(p, <<Backslash>>)

\* C6: validate_zip_path rejects exactly the names that are empty, begin
\* with "/", begin with a drive prefix X:\ (any letter), contain ".." or
\* contain a backslash, and accepts every other name.
C6_PathRejectedIffFeature ==
    pathResult \notin {"none", "idle"} =>
        ((pathResult # "ok") <=> SpecRejects(path))

\* C6 witness: a drive prefix with a letter other than C/c has been
\* validated and rejected.
C6_Witness ==
    /\ path = <<"D", ":", Backslash>>
    /\ pathResult = "backslash"

(***************************************************************************)
(* security.rs: SecurityConfig::default, and the Security Gate, the loop   *)
(* at the head of XlsxMetadataParser::new.  The caps are scaled down so    *)
(* that archives around each cap can be enumerated; their order            *)
(* (max_file_size < max_decompressed_size < U64_MAX) is the code's.        *)
(***************************************************************************)
max_file_count == 3          \* 10_000 in the code
max_file_size == 2           \* 104_857_600 in the code
max_decompressed_size == 5   \* 1_073_741_824 in the code
U64_MAX == 15                \* 2^64 - 1 in the code

\* A mutant of the gate loop: the cumulative-size check is missing.
RECURSIVE GateLoopNoTotal(_, _, _)
GateLoopNoTotal(ms, i, total) ==
    IF i > Len(ms) THEN "pass"
    ELSE LET file == ms[i] IN
         IF validate_zip_path(file.name) # "ok" THEN "SecurityViolation:path"
         ELSE IF file.size > max_file_size THEN "SecurityViolation:file_size"
         ELSE IF total + file.size > U64_MAX THEN "SecurityViolation:overflow"
         ELSE GateLoopNoTotal(ms, i + 1, total + file.size)

\* for i in 0..archive.len(): path check, per-member size check,
\* checked_add of the running sum, cumulative check.
RECURSIVE GateLoop(_, _, _)
GateLoop(ms, i, total) ==
    IF i > Len(ms) THEN "pass"
    ELSE LET file == ms[i] IN
         IF validate_zip_path(file.name) # "ok" THEN "SecurityViolation:path"
         ELSE IF file.size > max_file_size THEN "SecurityViolation:file_size"
         ELSE IF total + file.size > U64_MAX THEN "SecurityViolation:overflow"
         ELSE IF total + file.size > max_decompressed_size
              THEN "SecurityViolation:total_size"
         ELSE GateLoop(ms, i + 1, total + file.size)

SecurityGate(ms) ==
    IF Len(ms) > max_file_count THEN "SecurityViolation:file_count"
    ELSE GateLoop(ms, 1, 0)

IsSecurityViolation(r) ==
    r \in {"SecurityViolation:path", "SecurityViolation:file_size",
           "SecurityViolation:overflow", "SecurityViolation:total_size",
           "SecurityViolation:file_count"}

(***************************************************************************)
(* SpecGate: the gate applied to every directory of up to MaxMembers       *)
(* members with names from GateNames and sizes from GateSizes.             *)
(***************************************************************************)
MaxMembers == 4
GateNames == {<<"x">>, <<".", ".">>}
GateSizes == {1, max_file_size, max_file_size + 1, U64_MAX}
Member == [name : GateNames, size : GateSizes]

InitGate ==
    /\ members \in SeqsUpTo(Member, MaxMembers)
    /\ gateResult = "none"
    /\ IdlePath /\ IdleConv /\ IdleGrid /\ IdleSheet /\ IdleCell /\ IdleFn

RunGate ==
    /\ gateResult = "none"
    /\ gateResult' = SecurityGate(members)
    /\ UNCHANGED <<members, otherThanGate>>

NextGate == RunGate

SpecGate == InitGate /\ [][NextGate]_vars

RECURSIVE SumSizes(_, _)
SumSizes(ms, k) == IF k = 0 THEN 0 ELSE SumSizes(ms, k - 1) + ms[k].size

\* The conditions the specification lists for refusing an archive.
SpecGateRefuses(ms) ==
    \/ Len(ms) > max_file_count
    \/ \E i \in 1..Len(ms) : ms[i].size > max_file_size
    \/ \E k \in 1..Len(ms) : SumSizes(ms, k) > max_decompressed_size
    \/ \E k \in 1..Len(ms) : SumSizes(ms, k) > U64_MAX
    \/ \E i \in 1..Len(ms) : SpecRejects(ms[i].name)

MaxSheets == 2      \* sheets in a workbook
MaxSel == 2         \* entries of an Indices selector
MaxDirLen == 2      \* archive members in a conversion input

OutputFormats == {"Markdown", "Html", "Json", "Csv"}

ConvMember == [name : GateNames, size : {1}]

Selectors ==
    {[kind |-> "All"]}
    \cup {[kind |-> "Index", index |-> i] : i \in 0..MaxSheets}
    \cup {[kind |-> "Indices", indices |-> l] :
              l \in SeqsUpTo(0..MaxSheets, MaxSel) \ {<<>>}}

\* A workbook the reader can open has its parts in the directory, so at
\* least one member with a valid name, and only its own sheets can fail.
Inputs ==
    {i \in [too_big : BOOLEAN, xlsx_ok : BOOLEAN,
            dir : SeqsUpTo(ConvMember, MaxDirLen),
            sheets : 1..MaxSheets, bad_sheets : SUBSET (0..(MaxSheets - 1))] :
        /\ i.bad_sheets \subseteq 0..(i.sheets - 1)
        /\ i.xlsx_ok => \E k \in 1..Len(i.dir) : validate_zip_path(i.dir[k].name) = "ok"
        /\ ~i.xlsx_ok => i.sheets = 1 /\ i.bad_sheets = {}}

\* error.rs: XlsxToMdError, as its variant and what the message names.
NoResult == [class |-> "none"]
Ok == [class |-> "Ok"]
Err(class, detail) == [class |-> class, detail |-> detail]

\* workbook.rs: WorkbookParser::select_sheets.  The result is [ok, names]
\* or [ok, err].
RECURSIVE FirstOutOfRange(_, _, _)
FirstOutOfRange(indices, k, n) ==
    IF k > Len(indices) THEN -1
    ELSE IF indices[k] >= n THEN indices[k]
    ELSE FirstOutOfRange(indices, k + 1, n)

\* The first requested name that is not a sheet of the workbook, or <<>>.
RECURSIVE FirstMissing(_, _, _)
FirstMissing(names, k, all_sheet_names) ==
    IF k > Len(names) THEN <<>>
    ELSE IF \A j \in 1..Len(all_sheet_names) : all_sheet_names[j] # names[k]
         THEN <<names[k]>>
    ELSE FirstMissing(names, k + 1, all_sheet_names)

select_sheets_names_unchecked(selector, all_sheet_names) ==
    LET n == Len(all_sheet_names) IN
    CASE selector.kind = "All" ->
            [ok |-> TRUE, names |-> all_sheet_names]
      [] selector.kind = "Index" ->
            IF selector.index >= n
            THEN [ok |-> FALSE, err |-> Err("Config", <<"index", selector.index>>)]
            ELSE [ok |-> TRUE, names |-> <<all_sheet_names[selector.index + 1]>>]
      [] selector.kind = "Name" ->
            LET missing == FirstMissing(<<selector.name>>, 1, all_sheet_names) IN
            IF missing # <<>>
            THEN [ok |-> FALSE, err |-> Err("Config", <<"name", missing[1]>>)]
            ELSE [ok |-> TRUE, names |-> <<selector.name>>]
      [] selector.kind = "Indices" ->
            LET bad == FirstOutOfRange(selector.indices, 1, n) IN
            IF bad >= 0
            THEN [ok |-> FALSE, err |-> Err("Config", <<"index", bad>>)]
            ELSE [ok |-> TRUE,
                  names |-> [k \in 1..Len(selector.indices) |->
                                all_sheet_names[selector.indices[k] + 1]]]
      [] selector.kind = "Names" ->
            [ok |-> TRUE, names |-> selector.names]

\* WorkbookParser::select_sheets
select_sheets(selector, all_sheet_names) ==
    LET n == Len(all_sheet_names) IN
    CASE selector.kind = "All" ->
            [ok |-> TRUE, names |-> all_sheet_names]
      [] selector.kind = "Index" ->
            IF selector.index >= n
            THEN [ok |-> FALSE, err |-> Err("Config", <<"index", selector.index>>)]
            ELSE [ok |-> TRUE, names |-> <<all_sheet_names[selector.index + 1]>>]
      [] selector.kind = "Name" ->
            LET missing == FirstMissing(<<selector.name>>, 1, all_sheet_names) IN
            IF missing # <<>>
            THEN [ok |-> FALSE, err |-> Err("Config", <<"name", missing[1]>>)]
            ELSE [ok |-> TRUE, names |-> <<selector.name>>]
      [] selector.kind = "Indices" ->
            LET bad == FirstOutOfRange(selector.indices, 1, n) IN
            IF bad >= 0
            THEN [ok |-> FALSE, err |-> Err("Config", <<"index", bad>>)]
            ELSE [ok |-> TRUE,
                  names |-> [k \in 1..Len(selector.indices) |->
                                all_sheet_names[selector.indices[k] + 1]]]
      [] selector.kind = "Names" ->
            LET missing == FirstMissing(selector.names, 1, all_sheet_names) IN
            IF missing # <<>>
            THEN [ok |-> FALSE, err |-> Err("Config", <<"name", missing[1]>>)]
            ELSE [ok |-> TRUE, names |-> selector.names]

\* get_sheet_names of a workbook of n sheets, a sheet being named by its
\* position.
SheetNamesOf(n) == [k \in 1..n |-> k - 1]

\* The String a sheet task returns for the sheet it rendered.
SheetOutput(sheet) == [kind |-> "output", sheet |-> sheet]

RemoveAt(v, k) == [j \in 1..(Len(v) - 1) |-> IF j < k THEN v[j] ELSE v[j + 1]]

\* A mutant of the sort: the vector is left in the order collect gave it.
sort_by_key_missing(v) == v

\* sheet_outputs.sort_by_key(|(idx, _)| *idx): a stable sort on the index.
RECURSIVE sort_by_key(_)
sort_by_key(v) ==
    IF v = <<>> THEN <<>>
    ELSE LET k == CHOOSE k \in 1..Len(v) :
                      /\ \A j \in 1..Len(v) : v[k].idx <= v[j].idx
                      /\ \A j \in 1..(k - 1) : v[j].idx # v[k].idx
         IN  <<v[k]>> \o sort_by_key(RemoveAt(v, k))

\* A mutant of the error propagation: failed tasks are dropped and the
\* outputs of the others are kept.
collect_dropping_errors(t, err) == Ok

\* let mut sheet_outputs = sheet_outputs?; the collected Result is the
\* kept error if a task failed.
collect_result(t, err) ==
    IF \E i \in DOMAIN t : t[i] = "err" THEN err ELSE Ok

WriteLoopBody_rule_always(v, k, names, format) ==
    LET sep == IF format = "Markdown" THEN <<[kind |-> "rule"]>>
                                      ELSE <<[kind |-> "newline"]>>
        hdr == CASE format = "Markdown" -> <<[kind |-> "md_header", sheet |-> names[k]]>>
                 [] format = "Json"     -> <<>>
                 [] format = "Csv"      -> <<[kind |-> "csv_header", sheet |-> names[k]]>>
                 [] format = "Html"     -> <<[kind |-> "html_header", sheet |-> names[k]]>>
    IN  sep \o hdr \o <<v[k].out>>

\* What one turn of the write loop writes for position k (one-based) of the
\* sorted vector v: the separator, the header, the sheet's output.
WriteLoopBody(v, k, names, format) ==
    LET sep == IF k > 1
               THEN (IF format = "Markdown" THEN <<[kind |-> "rule"]>>
                                             ELSE <<[kind |-> "newline"]>>)
               ELSE <<>>
        hdr == CASE format = "Markdown" -> <<[kind |-> "md_header", sheet |-> names[k]]>>
                 [] format = "Json"     -> <<>>
                 [] format = "Csv"      -> <<[kind |-> "csv_header", sheet |-> names[k]]>>
                 [] format = "Html"     -> <<[kind |-> "html_header", sheet |-> names[k]]>>
    IN  sep \o hdr \o <<v[k].out>>

InitConv ==
    /\ input \in Inputs
    /\ config \in [sheet_selector : Selectors, output_format : OutputFormats]
    /\ pc = "read"
    /\ events = <<>>
    /\ sheet_names = <<>>
    /\ task = <<>>
    /\ arrival = <<>>
    /\ first_error = NoResult
    /\ sheet_outputs = <<>>
    /\ written = 0
    /\ sink = <<>>
    /\ result = NoResult
    /\ IdlePath /\ IdleGate /\ IdleGrid /\ IdleSheet /\ IdleCell /\ IdleFn

Fail(err) ==
    /\ result' = err
    /\ pc' = "failed"

\* convert: read_to_end and the input-size check.
ReadInput ==
    /\ pc = "read"
    /\ IF input.too_big
       THEN Fail(Err("SecurityViolation", "input_size"))
       ELSE pc' = "open" /\ UNCHANGED result
    /\ UNCHANGED <<input, config, events, sheet_names, task, arrival,
                   first_error, sheet_outputs, written, sink, otherThanConv>>

\* open_with_metadata, first half: the workbook reader opens the archive
\* and reads the workbook, styles, shared-strings and relationship parts.
CalamineOpen ==
    /\ pc = "open"
    /\ IF input.xlsx_ok
       THEN /\ events' = Append(events, "xml:workbook_reader")
            /\ pc' = "gate"
            /\ UNCHANGED result
       ELSE Fail(Err("Parse", "workbook")) /\ UNCHANGED events
    /\ UNCHANGED <<input, config, sheet_names, task, arrival, first_error,
                   sheet_outputs, written, sink, otherThanConv>>

\* open_with_metadata, second half, XlsxMetadataParser::new: the Security
\* Gate over the directory.
RunSecurityGate ==
    /\ pc = "gate"
    /\ LET r == SecurityGate(input.dir) IN
       IF ~IsSecurityViolation(r)
       THEN /\ events' = Append(events, "gate:passed")
            /\ pc' = "decode"
            /\ UNCHANGED result
       ELSE Fail(Err("SecurityViolation", r)) /\ UNCHANGED events
    /\ UNCHANGED <<input, config, sheet_names, task, arrival, first_error,
                   sheet_outputs, written, sink, otherThanConv>>

\* XlsxMetadataParser::new after the gate: the Metadata Decoder parses the
\* styles, shared-strings, worksheet, relationship and workbook parts.
DecodeMetadata ==
    /\ pc = "decode"
    /\ events' = Append(events, "xml:metadata_decoder")
    /\ pc' = "select"
    /\ UNCHANGED <<input, config, sheet_names, task, arrival, first_error,
                   sheet_outputs, written, sink, result, otherThanConv>>

\* convert: select_sheets, then the fan-out of one task per position.
SelectSheets ==
    /\ pc = "select"
    /\ LET r == select_sheets(config.sheet_selector, SheetNamesOf(input.sheets)) IN
       IF r.ok
       THEN /\ sheet_names' = r.names
            /\ task' = [k \in 1..Len(r.names) |-> "idle"]
            /\ pc' = "tasks"
            /\ UNCHANGED result
       ELSE Fail(r.err) /\ UNCHANGED <<sheet_names, task>>
    /\ UNCHANGED <<input, config, events, arrival, first_error,
                   sheet_outputs, written, sink, otherThanConv>>

\* A variant of the task's open that builds the metadata afresh, as
\* open_with_metadata does.
open_with_metadata_per_task(touched) ==
    touched \o <<"xml:workbook_reader", "gate:passed", "xml:metadata_decoder">>

\* WorkbookParser::open_with_existing_metadata: the workbook reader opens the
\* buffer again; the metadata handed in is kept as it is.
open_with_existing_metadata(touched) ==
    Append(touched, "xml:workbook_reader")

\* A worker picks up the task of position k and opens its own parser over
\* the shared buffer and the cloned metadata.
StartTask(k) ==
    /\ pc = "tasks"
    /\ task[k] = "idle"
    /\ task' = [task EXCEPT ![k] = "running"]
    /\ events' = open_with_existing_metadata(events)
    /\ UNCHANGED <<input, config, pc, sheet_names, arrival,
                   first_error, sheet_outputs, written, sink, result, otherThanConv>>

\* Once an error is kept, the pool may leave tasks it has not started.
SkipTask(k) ==
    /\ pc = "tasks"
    /\ task[k] = "idle"
    /\ first_error # NoResult
    /\ task' = [task EXCEPT ![k] = "skipped"]
    /\ UNCHANGED <<input, config, pc, events, sheet_names, arrival,
                   first_error, sheet_outputs, written, sink, result, otherThanConv>>

\* The task of position k ends: Ok((sheet_idx, output_string)) or the error
\* of parse_sheet, format_cell, build or render.
FinishTask(k) ==
    /\ pc = "tasks"
    /\ task[k] = "running"
    /\ IF sheet_names[k] \in input.bad_sheets
       THEN /\ task' = [task EXCEPT ![k] = "err"]
            /\ first_error' = IF first_error = NoResult
                              THEN Err("Parse", <<"sheet", sheet_names[k]>>)
                              ELSE first_error
            /\ UNCHANGED arrival
       ELSE /\ task' = [task EXCEPT ![k] = "ok"]
            /\ arrival' = Append(arrival, k)
            /\ UNCHANGED first_error
    /\ UNCHANGED <<input, config, pc, events, sheet_names, sheet_outputs,
                   written, sink, result, otherThanConv>>

\* The vector collect yields: one (idx, output) per finished task.  The
\* order is taken to be the finishing order, the least the code relies on.
Collected == [j \in 1..Len(arrival) |->
                 [idx |-> arrival[j] - 1, out |-> SheetOutput(sheet_names[arrival[j]])]]

\* convert: collect, the ? on its Result, and the sort.
Collect ==
    /\ pc = "tasks"
    /\ \A k \in DOMAIN task : task[k] \in {"ok", "err", "skipped"}
    /\ LET r == collect_result(task, first_error) IN
       IF r = Ok
       THEN /\ pc' = "write"
            /\ sheet_outputs' = sort_by_key(Collected)
            /\ UNCHANGED result
       ELSE Fail(r) /\ UNCHANGED sheet_outputs
    /\ UNCHANGED <<input, config, events, sheet_names, task, arrival,
                   first_error, written, sink, otherThanConv>>

\* convert: one turn of the write loop.
WriteSheet ==
    /\ pc = "write"
    /\ written < Len(sheet_outputs)
    /\ sink' = sink \o WriteLoopBody(sheet_outputs, written + 1, sheet_names,
                                     config.output_format)
    /\ written' = written + 1
    /\ UNCHANGED <<input, config, pc, events, sheet_names, task, arrival,
                   first_error, sheet_outputs, result, otherThanConv>>

\* convert: writer.flush() and Ok(()).
Flush ==
    /\ pc = "write"
    /\ written = Len(sheet_outputs)
    /\ pc' = "done"
    /\ result' = Ok
    /\ UNCHANGED <<input, config, events, sheet_names, task, arrival,
                   first_error, sheet_outputs, written, sink, otherThanConv>>

Next ==
    \/ ReadInput
    \/ CalamineOpen
    \/ RunSecurityGate
    \/ DecodeMetadata
    \/ SelectSheets
    \/ \E k \in DOMAIN task : StartTask(k)
    \/ \E k \in DOMAIN task : SkipTask(k)
    \/ \E k \in DOMAIN task : FinishTask(k)
    \/ Collect
    \/ WriteSheet
    \/ Flush

Spec == InitConv /\ [][Next]_vars

(***************************************************************************)
(* Properties of Converter::convert.                                       *)
(***************************************************************************)
IsOutput(t) == t.kind = "output"
OutputsIn(written_items) == SelectSeq(written_items, IsOutput)

\* C1: the sink holds the per-sheet outputs in sheet-selection order (the
\* position in the resolved selector list), whatever order the tasks
\* started or finished in; a successful conversion has written all of them.
C1_OutputInSelectionOrder ==
    /\ OutputsIn(sink) = [k \in 1..written |-> SheetOutput(sheet_names[k])]
    /\ result = Ok => written = Len(sheet_names)

\* C1 witness: a conversion of two different sheets succeeded although the
\* task of the second position finished first.
C1_Witness ==
    /\ result = Ok
    /\ arrival = <<2, 1>>
    /\ sheet_names[1] # sheet_names[2]
    /\ Len(OutputsIn(sink)) = 2

\* C2: when convert has returned an error nothing was written to the sink,
\* and nothing is written before every selected sheet's task has ended
\* successfully.
C2_NoPartialOutput ==
    /\ pc = "failed" => sink = <<>>
    /\ sink # <<>> => \A k \in DOMAIN task : task[k] = "ok"

\* C2 witness: one task succeeded, another failed, convert returned the
\* failure and the sink is empty.
C2_Witness ==
    /\ pc = "failed"
    /\ \E k \in DOMAIN task : task[k] = "ok"
    /\ \E k \in DOMAIN task : task[k] = "err"
    /\ result = first_error
    /\ sink = <<>>

HasInvalidMember(dir) == \E i \in 1..Len(dir) : SpecRejects(dir[i].name)

\* C3: converting an archive that holds a member whose name fails path
\* validation ends with a SecurityViolation error and no other error class,
\* whatever else the archive holds.
C3_InvalidMemberIsSecurityViolation ==
    (pc \in {"failed", "done"} /\ HasInvalidMember(input.dir)) =>
        result.class = "SecurityViolation"

IsXmlParse(e) == e \in {"xml:workbook_reader", "xml:metadata_decoder"}

\* C4: the Security Gate has passed over every archive member before any
\* component parses an XML part of the archive.
C4_GateBeforeAnyXml ==
    \A k \in 1..Len(events) :
        IsXmlParse(events[k]) => \E j \in 1..(k - 1) : events[j] = "gate:passed"

IsRule(t) == t.kind = "rule"
IsMdHeader(t) == t.kind = "md_header"

\* C14: in a Markdown conversion the header "# <sheetName>" of a sheet is
\* written immediately before that sheet's table, the headers follow the
\* selection order, and the separator (blank line, "---", blank line) is
\* written once between each two consecutive sheets, n - 1 times for n
\* sheets, never before the first sheet and never after the last.
C14_HeaderAndSeparatorPerSheet ==
    (pc \in {"write", "done"} /\ config.output_format = "Markdown") =>
        /\ \A i \in 1..Len(sink) :
              IsOutput(sink[i]) =>
                  /\ i > 1
                  /\ sink[i - 1] = [kind |-> "md_header", sheet |-> sink[i].sheet]
        /\ SelectSeq(sink, IsMdHeader) =
              [k \in 1..written |-> [kind |-> "md_header", sheet |-> sheet_names[k]]]
        /\ \A i \in 1..Len(sink) :
              IsRule(sink[i]) =>
                  /\ i > 1 /\ IsOutput(sink[i - 1])
                  /\ i < Len(sink) /\ IsMdHeader(sink[i + 1])
        /\ \A i \in 2..Len(sink) :
              ~(IsOutput(sink[i - 1]) /\ IsMdHeader(sink[i]))
        /\ (pc = "done" /\ Len(sheet_names) >= 1) =>
              Len(SelectSeq(sink, IsRule)) = Len(sheet_names) - 1

\* C14 witness: a Markdown conversion of two sheets ended with one
\* separator, written between the first table and the second header.
C14_Witness ==
    /\ pc = "done"
    /\ config.output_format = "Markdown"
    /\ Len(sheet_names) = 2
    /\ Len(sink) = 5
    /\ IsRule(sink[3])

\* What convert returns and writes when the sheet tasks run one after the
\* other in selection order: the error of the first selected sheet that
\* fails, or every sheet's output in selection order.
SequentialError(names, bad) ==
    Err("Parse", <<"sheet", names[Min({k \in 1..Len(names) : names[k] \in bad})]>>)

SequentialOutput(names, format) ==
    Flatten([k \in 1..Len(names) |->
        (IF k > 1 THEN (IF format = "Markdown" THEN <<[kind |-> "rule"]>>
                                                ELSE <<[kind |-> "newline"]>>)
         ELSE <<>>)
        \o (CASE format = "Markdown" -> <<[kind |-> "md_header", sheet |-> names[k]]>>
              [] format = "Json"     -> <<>>
              [] format = "Csv"      -> <<[kind |-> "csv_header", sheet |-> names[k]]>>
              [] format = "Html"     -> <<[kind |-> "html_header", sheet |-> names[k]]>>)
        \o <<SheetOutput(names[k])>>])

\* C29: the result of convert is a function of the input and the
\* configuration: the output written on success and the error returned on
\* failure are those of the sequential run, however the sheet tasks are
\* scheduled and in whichever order they finish, also when more than one
\* of them fails.
C29_ResultIndependentOfSchedule ==
    /\ pc = "done" =>
          /\ result = Ok
          /\ sink = SequentialOutput(sheet_names, config.output_format)
    /\ (pc = "failed" /\ \E k \in DOMAIN task : task[k] = "err") =>
          result = SequentialError(sheet_names, input.bad_sheets)

\* How often a component appears among those that have touched the archive.
Runs(touched, component) ==
    Cardinality({i \in 1..Len(touched) : touched[i] = component})

\* C30: during one conversion the Metadata Decoder runs at most once; it has
\* run exactly once by the time the sheet tasks can start, and however many
\* sheet tasks have started or ended, each of them having opened the
\* workbook reader again, it has still run exactly once.
C30_DecoderRunsOnce ==
    /\ Runs(events, "xml:metadata_decoder") <= 1
    /\ pc \in {"tasks", "write", "done"} =>
          /\ Runs(events, "xml:metadata_decoder") = 1
          /\ Runs(events, "xml:workbook_reader") =
                1 + Cardinality({k \in DOMAIN task : task[k] \notin {"idle", "skipped"}})
    /\ (\E k \in DOMAIN task : task[k] # "idle") =>
          Runs(events, "xml:metadata_decoder") = 1

\* Two selected sheets, both converted: three opens of the workbook reader,
\* one run of the decoder.
C30_Witness ==
    /\ pc = "done"
    /\ Len(sheet_names) = 2
    /\ \A k \in DOMAIN task : task[k] = "ok"
    /\ Runs(events, "xml:workbook_reader") = 3
    /\ Runs(events, "xml:metadata_decoder") = 1

(***************************************************************************)
(* grid.rs: LogicalGrid, and the renderers of output/formatters.rs.        *)
(*                                                                         *)
(* A coordinate is <<row, col>>, zero-based.  Display text is atomic:      *)
(* <<>> is the empty string and Text(c) the text of the cell read at c,    *)
(* different for every c.  None is <<>> in merge_parent.                   *)
(***************************************************************************)
MaxRow == 1         \* largest row index of a cell or region
MaxCol == 2         \* largest column index of a cell or region
MaxRegions == 2     \* merge regions of a sheet

EmptyText == <<>>
Text(coord) == <<"text", coord[1], coord[2]>>

\* Cell::new, Cell::new_merged, Cell::empty
Cell_new(content) ==
    [content |-> content, is_merged |-> FALSE, merge_parent |-> <<>>]
Cell_new_merged(content, parent) ==
    [content |-> content, is_merged |-> TRUE, merge_parent |-> parent]
Cell_empty == Cell_new(EmptyText)

\* MergedRegion: range.start..=range.end, parent = range.start
RegionCells(R) == (R.start[1]..R.end[1]) \X (R.start[2]..R.end[2])
row_span(R) == R.end[1] - R.start[1] + 1
col_span(R) == R.end[2] - R.start[2] + 1

\* LogicalGrid::determine_grid_size: max_row and max_col start at 0.
determine_grid_size(coords) ==
    <<Max({0} \cup {c[1] : c \in coords}) + 1,
      Max({0} \cup {c[2] : c \in coords}) + 1>>

\* LogicalGrid::apply_data_duplication, from region k on.  Indexing
\* self.cells outside the grid panics.
RECURSIVE apply_data_duplication(_, _, _)
apply_data_duplication(cells, regs, k) ==
    IF k > Len(regs) THEN [panic |-> FALSE, cells |-> cells]
    ELSE LET R == regs[k] IN
         IF \E c \in RegionCells(R) : c \notin DOMAIN cells
         THEN [panic |-> TRUE, cells |-> cells]
         ELSE apply_data_duplication(
                  [c \in DOMAIN cells |->
                      IF c \in RegionCells(R) /\ c # R.start
                      THEN Cell_new_merged(cells[R.start].content, R.start)
                      ELSE cells[c]],
                  regs, k + 1)

\* LogicalGrid::build
build(fcells, regs, merge_strategy) ==
    LET size == determine_grid_size(DOMAIN fcells)
        dom == (0..(size[1] - 1)) \X (0..(size[2] - 1))
        placed == [c \in dom |-> IF c \in DOMAIN fcells
                                 THEN Cell_new(fcells[c]) ELSE Cell_empty]
        merged == IF merge_strategy = "DataDuplication"
                  THEN apply_data_duplication(placed, regs, 1)
                  ELSE [panic |-> FALSE, cells |-> placed]
    IN  [panic |-> merged.panic, rows |-> size[1], cols |-> size[2],
         cells |-> merged.cells]

IsMergedChild(cell) == cell.is_merged /\ cell.merge_parent # <<>>

\* LogicalGrid::calculate_span: the first region whose parent is coord.
calculate_span(coord, regs) ==
    LET hits == {k \in 1..Len(regs) : regs[k].start = coord} IN
    IF hits = {} THEN <<1, 1>>
    ELSE <<row_span(regs[Min(hits)]), col_span(regs[Min(hits)])>>

\* LogicalGrid::render_markdown.  A row carries its cell contents; the
\* separator row follows the first row.
render_markdown(g) ==
    IF g.rows = 0 \/ g.cols = 0 THEN <<>>
    ELSE Flatten([r \in 1..g.rows |->
            <<[kind |-> "md_row",
               cells |-> [c \in 1..g.cols |-> g.cells[<<r - 1, c - 1>>].content]]>>
            \o (IF r = 1 THEN <<[kind |-> "md_separator", cols |-> g.cols]>>
                ELSE <<>>)])

\* LogicalGrid::render_html.  A td carries its span attributes, <<>> when
\* it is written as a plain <td>.
HtmlCell(g, regs, coord) ==
    IF IsMergedChild(g.cells[coord]) THEN <<>>
    ELSE LET sp == calculate_span(coord, regs) IN
         <<[kind |-> "td", at |-> coord,
            span |-> IF sp[1] > 1 \/ sp[2] > 1 THEN sp ELSE <<>>,
            content |-> g.cells[coord].content]>>

render_html(g, regs) ==
    <<[kind |-> "table"]>>
    \o Flatten([r \in 1..g.rows |->
          <<[kind |-> "tr"]>>
          \o Flatten([c \in 1..g.cols |-> HtmlCell(g, regs, <<r - 1, c - 1>>)])
          \o <<[kind |-> "/tr"]>>])
    \o <<[kind |-> "/table"]>>

\* JsonFormatter::render: one object per row, keyed by column, without the
\* merged children.
render_json(g) ==
    IF g.rows = 0 \/ g.cols = 0 THEN <<[kind |-> "json_empty_object"]>>
    ELSE <<[kind |-> "json_rows",
            rows |-> [r \in 1..g.rows |->
                [c \in {c \in 0..(g.cols - 1) : ~IsMergedChild(g.cells[<<r - 1, c>>])}
                    |-> g.cells[<<r - 1, c>>].content]]]>>

\* CsvFormatter::render: one line per row, without the merged children.
render_csv(g) ==
    IF g.rows = 0 \/ g.cols = 0 THEN <<>>
    ELSE [r \in 1..g.rows |->
            [kind |-> "csv_line",
             fields |-> Flatten([c \in 1..g.cols |->
                 IF IsMergedChild(g.cells[<<r - 1, c - 1>>]) THEN <<>>
                 ELSE <<g.cells[<<r - 1, c - 1>>].content>>])]]

\* OutputFormatter::from_format(config.output_format).render(...)
render(output_format, g, regs) ==
    CASE output_format = "Markdown" -> render_markdown(g)
      [] output_format = "Html"     -> render_html(g, regs)
      [] output_format = "Json"     -> render_json(g)
      [] output_format = "Csv"      -> render_csv(g)

(***************************************************************************)
(* SpecGrid: the second half of a sheet task (builder.rs:509-522), build   *)
(* and render, over the cells parse_sheet kept (the rows kept times the    *)
(* columns kept) and the sheet's merge regions.                            *)
(***************************************************************************)
MergeStrategies == {"DataDuplication", "HtmlFallback"}

MergeRegions ==
    {R \in [start : (0..MaxRow) \X (0..MaxCol), end : (0..MaxRow) \X (0..MaxCol)] :
        /\ R.start[1] <= R.end[1]
        /\ R.start[2] <= R.end[2]
        /\ R.start # R.end}

InitGrid ==
    /\ \E rs \in SUBSET (0..MaxRow), cs \in SUBSET (0..MaxCol) :
           formatted_cells = [c \in rs \X cs |-> Text(c)]
    /\ regions \in SeqsUpTo(MergeRegions, MaxRegions)
    /\ gconfig \in [merge_strategy : MergeStrategies, output_format : OutputFormats]
    /\ gpc = "start"
    /\ grid = <<>>
    /\ rendered = <<>>
    /\ IdlePath /\ IdleGate /\ IdleConv /\ IdleSheet /\ IdleCell /\ IdleFn

\* convert: LogicalGrid::build(raw_cells, formatted_cells, &metadata, strategy)
BuildGrid ==
    /\ gpc = "start"
    /\ LET g == build(formatted_cells, regions, gconfig.merge_strategy) IN
       IF g.panic
       THEN gpc' = "panic" /\ UNCHANGED grid
       ELSE gpc' = "built" /\ grid' = g
    /\ UNCHANGED <<formatted_cells, regions, gconfig, rendered, sheetVars,
                   otherThanSheet>>

\* convert: formatter.render(&grid, &mut output_buffer, &metadata.merged_regions)
RenderGrid ==
    /\ gpc = "built"
    /\ rendered' = render(gconfig.output_format, grid, regions)
    /\ gpc' = "rendered"
    /\ UNCHANGED <<formatted_cells, regions, gconfig, grid, sheetVars,
                   otherThanSheet>>

NextGrid == BuildGrid \/ RenderGrid

SpecGrid == InitGrid /\ [][NextGrid]_vars

\* C7: under data-duplication, build yields a grid in which, for every
\* merge region of the sheet's list, every cell of the region holds the
\* text of the region's parent cell.
C7_MergedCellsHoldParentText ==
    (gpc # "idle" /\ gconfig.merge_strategy = "DataDuplication" /\ gpc # "start") =>
        /\ gpc # "panic"
        /\ \A k \in 1..Len(regions) : \A c \in RegionCells(regions[k]) :
              /\ c \in DOMAIN grid.cells
              /\ grid.cells[c].content = grid.cells[regions[k].start].content

InGrid(R) == \A c \in RegionCells(R) : c \in DOMAIN grid.cells

\* C9: with merge strategy html-fallback and the output format at its
\* default (or html), a sheet with a merge region is rendered as an HTML
\* table in which the region's parent cell is a td carrying the region's
\* rowspan and colspan.
C9_HtmlFallbackEmitsSpannedTd ==
    (gpc # "idle" /\ gconfig.merge_strategy = "HtmlFallback"
        /\ gconfig.output_format \in {"Markdown", "Html"}
        /\ gpc = "rendered" /\ Len(regions) = 1 /\ InGrid(regions[1])) =>
        \E i \in 1..Len(rendered) :
            /\ rendered[i].kind = "td"
            /\ rendered[i].at = regions[1].start
            /\ rendered[i].span = <<row_span(regions[1]), col_span(regions[1])>>
            /\ rendered[i].content = grid.cells[regions[1].start].content

\* C20: the grid built for a sheet has rows and columns for the bounding
\* box of every merge region, so that data-duplication touches no
\* coordinate outside the grid, whichever cells of a region the sheet
\* handed over.
C20_GridCoversMergeRegions ==
    gpc \in {"panic", "built", "rendered"} =>
        /\ gpc # "panic"
        /\ \A k \in 1..Len(regions) :
              /\ regions[k].end[1] < grid.rows
              /\ regions[k].end[2] < grid.cols

Disjoint(regs) ==
    \A j, k \in 1..Len(regs) : j # k => RegionCells(regs[j]) \cap RegionCells(regs[k]) = {}

\* C21: in HTML output every merge region (the regions being disjoint and
\* inside the grid) has exactly one td, at its parent coordinate and
\* carrying its rowspan and colspan, and no td for any other of its cells,
\* under data-duplication and under html-fallback.
C21_OneTdPerMergeRegion ==
    (gpc = "rendered" /\ gconfig.output_format = "Html" /\ Disjoint(regions)) =>
        \A k \in 1..Len(regions) :
            InGrid(regions[k]) =>
                /\ \E i \in 1..Len(rendered) :
                      rendered[i].kind = "td" /\ rendered[i].at = regions[k].start
                /\ \A i \in 1..Len(rendered) :
                    (rendered[i].kind = "td" /\ rendered[i].at \in RegionCells(regions[k])) =>
                        /\ rendered[i].at = regions[k].start
                        /\ rendered[i].span = <<row_span(regions[k]), col_span(regions[k])>>
                        /\ \A j \in 1..Len(rendered) :
                              (rendered[j].kind = "td" /\ rendered[j].at = rendered[i].at)
                                  => j = i

\* C17: for a sheet that yields no cells the grid is empty (no rows or no
\* columns) and the JSON renderer emits the empty object.
C17_EmptySheetRendersEmptyObject ==
    (gpc = "rendered" /\ gconfig.output_format = "Json"
                      /\ DOMAIN formatted_cells = {}) =>
        /\ grid.rows = 0 \/ grid.cols = 0
        /\ rendered = <<[kind |-> "json_empty_object"]>>

(***************************************************************************)
(* SpecSheet: one sheet task from the worksheet part to the rendered       *)
(* table.  The workbook holds the processed sheet's worksheet part         *)
(* xl/worksheets/sheet<part>.xml and one other worksheet part; the sheet's *)
(* used cell range runs from `origin` to <<MaxRow, MaxCol>>, and the cell  *)
(* at absolute coordinate c displays Text(c).                              *)
(***************************************************************************)
MaxParts == 2       \* worksheet parts of the workbook

SheetDisplayNames == {"Sheet1", "Sheet2", "Data"}

\* <col min=".." max=".." hidden=".."> and <row r=".." hidden="..">, with
\* the way the element is written; min, max and r are one-based.
ColElems ==
    {e \in [min : 1..(MaxCol + 1), max : 1..(MaxCol + 1),
            hidden : BOOLEAN, self_closing : BOOLEAN] :
        e.min <= e.max /\ (e.min = e.max => e.min = 1)
                       /\ (e.min < e.max => e.min = 2)}
RowElems ==
    [r : 1..(MaxRow + 1), hidden : BOOLEAN, self_closing : BOOLEAN]

PartContents ==
    [cols : SeqsUpTo(ColElems, 1), rows : SeqsUpTo(RowElems, 1)]
OtherPartContents ==
    {[cols |-> <<>>, rows |-> <<>>],
     [cols |-> <<[min |-> 1, max |-> 1, hidden |-> TRUE, self_closing |-> FALSE]>>,
      rows |-> <<>>]}

Origins == {<<0, 0>>, <<0, 1>>, <<1, 1>>}
ConfigRanges ==
    {<<>>, [start |-> <<0, 0>>, end |-> <<0, 1>>], [start |-> <<1, 1>>, end |-> <<1, 2>>]}

Worksheets ==
    [name : SheetDisplayNames, part : 1..MaxParts, origin : Origins,
     own : PartContents, other : OtherPartContents]

\* XlsxMetadataParser::extract_sheet_name_from_path: format!("Sheet{}", num)
extract_sheet_name_from_path(part_number) ==
    CASE part_number = 1 -> "Sheet1"
      [] part_number = 2 -> "Sheet2"
      [] part_number = 3 -> "Sheet3"

SeqRange(q) == {q[i] : i \in 1..Len(q)}

\* XlsxMetadataParser::parse_worksheet_xml: only Event::Start is matched
\* for col and row, so an element written self-closing (Event::Empty)
\* falls through.
parse_worksheet_xml(part) ==
    [hidden_rows |-> {e.r - 1 : e \in {e \in SeqRange(part.rows) :
                                        ~e.self_closing /\ e.hidden}},
     hidden_cols |-> UNION {(e.min - 1)..(e.max - 1) :
                             e \in {e \in SeqRange(part.cols) :
                                        ~e.self_closing /\ e.hidden}}]

\* XlsxMetadataParser::parse_worksheets: the maps are keyed by the name
\* made from the part's path; an empty set is not inserted.
parse_worksheets(w) ==
    LET content(n) == IF n = w.part THEN w.own ELSE w.other
        key(n) == extract_sheet_name_from_path(n)
        keys == {key(n) : n \in 1..MaxParts}
        part_of(k) == CHOOSE n \in 1..MaxParts : key(n) = k
    IN  [hidden_rows |->
            [k \in {k \in keys : parse_worksheet_xml(content(part_of(k))).hidden_rows # {}}
                |-> parse_worksheet_xml(content(part_of(k))).hidden_rows],
         hidden_cols |->
            [k \in {k \in keys : parse_worksheet_xml(content(part_of(k))).hidden_cols # {}}
                |-> parse_worksheet_xml(content(part_of(k))).hidden_cols]]

\* CellRange::contains
CellRange_contains(range, coord) ==
    /\ coord[1] >= range.start[1] /\ coord[1] <= range.end[1]
    /\ coord[2] >= range.start[2] /\ coord[2] <= range.end[2]

\* WorkbookParser::collect_metadata: the maps are looked up by the
\* sheet's display name.
collect_metadata(w, t) ==
    [hidden_rows |-> IF w.name \in DOMAIN t.hidden_rows
                     THEN t.hidden_rows[w.name] ELSE {},
     hidden_cols |-> IF w.name \in DOMAIN t.hidden_cols
                     THEN t.hidden_cols[w.name] ELSE {}]

\* WorkbookParser::parse_sheet: the coordinates kept.  row_idx and col_idx
\* count from the first row and column of the used range.
parse_sheet(w, t, cfg) ==
    LET metadata == collect_metadata(w, t) IN
    {coord \in (0..(MaxRow - w.origin[1])) \X (0..(MaxCol - w.origin[2])) :
        /\ ~(~cfg.include_hidden /\ coord[1] \in metadata.hidden_rows)
        /\ ~(~cfg.include_hidden /\ coord[2] \in metadata.hidden_cols)
        /\ (cfg.range # <<>> => CellRange_contains(cfg.range, coord))}

\* The cell that range.rows().enumerate() yields at (row_idx, col_idx).
CellAt(w, coord) == <<w.origin[1] + coord[1], w.origin[2] + coord[2]>>

\* A row element written self-closing holds no cells: the range yields
\* Data::Empty there, displayed as the empty string.
CellText(w, c) ==
    IF \E e \in SeqRange(w.own.rows) : e.self_closing /\ c[1] = e.r - 1
    THEN EmptyText ELSE Text(c)

InitSheet ==
    /\ worksheet \in Worksheets
    /\ sconfig \in [include_hidden : BOOLEAN, range : ConfigRanges]
    /\ spc = "start"
    /\ tables = <<>>
    /\ formatted_cells = <<>>
    /\ regions = <<>>
    /\ gconfig = [merge_strategy |-> "DataDuplication", output_format |-> "Markdown"]
    /\ gpc = "wait"
    /\ grid = <<>>
    /\ rendered = <<>>
    /\ IdlePath /\ IdleGate /\ IdleConv /\ IdleCell /\ IdleFn

\* XlsxMetadataParser::new: parse_worksheets
DecodeWorksheets ==
    /\ spc = "start"
    /\ tables' = parse_worksheets(worksheet)
    /\ spc' = "decoded"
    /\ UNCHANGED <<worksheet, sconfig, gridVars, otherThanSheet>>

\* convert: parser.parse_sheet, then format_cell for every raw cell
ParseSheet ==
    /\ spc = "decoded"
    /\ formatted_cells' = [coord \in parse_sheet(worksheet, tables, sconfig)
                              |-> CellText(worksheet, CellAt(worksheet, coord))]
    /\ spc' = "parsed"
    /\ gpc' = "start"
    /\ UNCHANGED <<worksheet, sconfig, tables, regions, gconfig, grid, rendered,
                   otherThanSheet>>

NextSheet == DecodeWorksheets \/ ParseSheet \/ BuildGrid \/ RenderGrid

SpecSheet == InitSheet /\ [][NextSheet]_vars

\* The cell at absolute coordinate c is in a row or column that the
\* sheet's own worksheet part marks hidden.
MarkedHidden(w, c) ==
    \/ \E e \in SeqRange(w.own.rows) : e.hidden /\ c[1] = e.r - 1
    \/ \E e \in SeqRange(w.own.cols) : e.hidden /\ e.min - 1 <= c[2] /\ c[2] <= e.max - 1

SheetCells(w) == (w.origin[1]..MaxRow) \X (w.origin[2]..MaxCol)

InOutput(text) ==
    \E i \in 1..Len(rendered) :
        /\ rendered[i].kind = "md_row"
        /\ \E j \in 1..Len(rendered[i].cells) : rendered[i].cells[j] = text

\* C8: with include_hidden = false no line of the output holds the
\* (non-empty) display string of a cell whose row or column the sheet's
\* worksheet part marks hidden; with include_hidden = true (and no range configured) all those
\* strings are in the output.
C8_HiddenCellsFiltered ==
    (spc = "parsed" /\ gpc = "rendered") =>
        \A c \in SheetCells(worksheet) :
            (MarkedHidden(worksheet, c) /\ CellText(worksheet, c) # EmptyText) =>
                /\ ~sconfig.include_hidden => ~InOutput(Text(c))
                /\ (sconfig.include_hidden /\ sconfig.range = <<>>) => InOutput(Text(c))

\* C22: the hidden-row and hidden-column sets consulted for the sheet are
\* the ones decoded from the sheet's own worksheet part, whatever the
\* sheet's display name and whichever part is its own.
C22_OwnPartTablesConsulted ==
    spc \in {"decoded", "parsed"} =>
        collect_metadata(worksheet, tables) = parse_worksheet_xml(worksheet.own)

\* The part with every element written as a start tag and an end tag.
AsStartTags(part) ==
    [cols |-> [i \in 1..Len(part.cols) |-> [part.cols[i] EXCEPT !.self_closing = FALSE]],
     rows |-> [i \in 1..Len(part.rows) |-> [part.rows[i] EXCEPT !.self_closing = FALSE]]]

\* C23: the decoder produces the same tables whether a col or row element
\* is written self-closing or as a start tag followed by its end tag; a
\* self-closing hidden col contributes its span to the hidden columns.
C23_SelfClosingDecodedAlike ==
    spc \in {"decoded", "parsed"} =>
        parse_worksheets(worksheet) =
            parse_worksheets([worksheet EXCEPT !.own = AsStartTags(worksheet.own)])

\* C24: every cell parse_sheet keeps carries its absolute sheet
\* coordinate: the text held under a coordinate is the text of the sheet's
\* cell at that coordinate, also when the used range does not start at A1.
C24_RawCellsCarryAbsoluteCoordinates ==
    spc = "parsed" =>
        \A coord \in DOMAIN formatted_cells :
            formatted_cells[coord] = CellText(worksheet, coord)

\* C15: with a range configured, the rendered table holds no content of
\* a cell outside the range and has at most r1 - r0 + 1 rows and at most
\* c1 - c0 + 1 columns, also for a range with r0 > 0 or c0 > 0.
C15_TableConfinedToRange ==
    (spc = "parsed" /\ gpc = "rendered" /\ sconfig.range # <<>>) =>
        LET rg == sconfig.range
            table == {i \in 1..Len(rendered) : rendered[i].kind = "md_row"}
        IN  /\ Cardinality(table) <= rg.end[1] - rg.start[1] + 1
            /\ \A i \in table :
                  Len(rendered[i].cells) <= rg.end[2] - rg.start[2] + 1
            /\ \A c \in SheetCells(worksheet) :
                  (~CellRange_contains(rg, c) /\ CellText(worksheet, c) # EmptyText)
                      => ~InOutput(Text(c))

(***************************************************************************)
(* SpecCell: one Number cell of a worksheet, from what the workbook reader *)
(* hands over to the string format_cell returns.  A format string is a     *)
(* sequence of characters; a Number is held in tenths, so 15 is 1.5.       *)
(***************************************************************************)
MaxSerial == 2      \* largest whole serial value of a cell

None == [some |-> FALSE]
Some(v) == [some |-> TRUE, v |-> v]

\* get_builtin_format, for the ids the cells below use
get_builtin_format(id) ==
    CASE id = 0  -> Some(<<"G", "e", "n", "e", "r", "a", "l">>)
      [] id = 2  -> Some(<<"0", ".", "0", "0">>)
      [] id = 13 -> Some(<<"#", " ", "?", "?", "/", "?", "?">>)
      [] id = 14 -> Some(<<"m", "m", "-", "d", "d", "-", "y", "y">>)
      [] id = 22 -> Some(<<"m", "/", "d", "/", "y", "y", " ", "h", ":", "m", "m">>)
      [] id = 45 -> Some(<<"m", "m", ":", "s", "s">>)
      [] id = 47 -> Some(<<"m", "m", ":", "s", "s", ".", "0">>)
      [] id = 48 -> Some(<<"#", "#", "0", ".", "0", "E", "+", "0">>)
      [] OTHER   -> None

\* XlsxMetadataParser::get_format_string, for the xf of the cell's style
get_format_string(c) ==
    IF c.num_fmt_id < 164 THEN get_builtin_format(c.num_fmt_id)
    ELSE c.format_code

\* str::to_lowercase, on the letters the format strings below use
LowerChar(ch) ==
    CASE ch = "Y" -> "y" [] ch = "M" -> "m" [] ch = "D" -> "d"
      [] ch = "H" -> "h" [] ch = "G" -> "g" [] ch = "E" -> "e"
      [] OTHER -> ch
to_lowercase(str) == [i \in 1..Len(str) |-> LowerChar(str[i])]

\* CellFormatter::is_date_value
is_date_value(format_id, format_string) ==
    \/ format_id.some /\ (format_id.v \in 14..22 \/ format_id.v \in 45..47)
    \/ /\ format_string.some
       /\ LET format_lower == to_lowercase(format_string.v) IN
          \/ Contains(format_lower, <<"y", "y">>)
          \/ Contains(format_lower, <<"m", "m">>)
          \/ Contains(format_lower, <<"d", "d">>)
          \/ Contains(format_lower, <<"h", "h">>)

\* Decimal digits: u64::to_string, and format!("{:0width$}", n)
DigitChars == <<"0", "1", "2", "3", "4", "5", "6", "7", "8", "9">>
RECURSIVE u64_to_string(_)
u64_to_string(n) ==
    IF n < 10 THEN <<DigitChars[n + 1]>>
    ELSE Append(u64_to_string(n \div 10), DigitChars[(n % 10) + 1])
RECURSIVE pad_zero(_, _)
pad_zero(str, width) ==
    IF Len(str) < width THEN pad_zero(<<"0">> \o str, width) ELSE str

Abs(v) == IF v < 0 THEN 0 - v ELSE v

\* CharCode: the order of the characters of a rendered date
CharCode(ch) ==
    CASE ch = "-" -> 45 [] ch = "0" -> 48 [] ch = "1" -> 49 [] ch = "2" -> 50
      [] ch = "3" -> 51 [] ch = "4" -> 52 [] ch = "5" -> 53 [] ch = "6" -> 54
      [] ch = "7" -> 55 [] ch = "8" -> 56 [] ch = "9" -> 57

\* String < String: lexicographic order by character
RECURSIVE LexLess(_, _)
LexLess(a, b) ==
    IF b = <<>> THEN FALSE
    ELSE IF a = <<>> THEN TRUE
    ELSE IF Head(a) # Head(b) THEN CharCode(Head(a)) < CharCode(Head(b))
    ELSE LexLess(Tail(a), Tail(b))

iso8601_unpadded(date) ==
    u64_to_string(date[1]) \o <<"-">> \o u64_to_string(date[2])
    \o <<"-">> \o u64_to_string(date[3])

\* date.format("%Y-%m-%d").to_string()
iso8601(date) ==
    pad_zero(u64_to_string(date[1]), 4) \o <<"-">> \o pad_zero(u64_to_string(date[2]), 2)
    \o <<"-">> \o pad_zero(u64_to_string(date[3]), 2)

\* chrono: the proleptic Gregorian calendar.  days_from_civil counts the
\* days from 1970-01-01 to <<y, m, d>>, civil_from_days is its inverse.
days_from_civil(date) ==
    LET y == IF date[2] <= 2 THEN date[1] - 1 ELSE date[1]
        era == y \div 400
        yoe == y - era * 400
        mp == IF date[2] > 2 THEN date[2] - 3 ELSE date[2] + 9
        doy == (153 * mp + 2) \div 5 + date[3] - 1
        doe == yoe * 365 + yoe \div 4 - yoe \div 100 + doy
    IN  era * 146097 + doe - 719468

civil_from_days(days) ==
    LET z == days + 719468
        era == z \div 146097
        doe == z - era * 146097
        yoe == (doe - doe \div 1460 + doe \div 36524 - doe \div 146096) \div 365
        doy == doe - (365 * yoe + yoe \div 4 - yoe \div 100)
        mp == (5 * doy + 2) \div 153
        d == doy - (153 * mp + 2) \div 5 + 1
        m == IF mp < 10 THEN mp + 3 ELSE mp - 9
        y == yoe + era * 400 + (IF m <= 2 THEN 1 ELSE 0)
    IN  <<y, m, d>>

\* Duration::days(n) panics when n is beyond what a Duration holds, and
\* NaiveDate::checked_add_signed is None when the date is beyond what a
\* NaiveDate holds.  Both limits are scaled down, in their order.
NaiveDateMaxDays == 100000
DurationMaxDays == 1000000

\* epoch.checked_add_signed(Duration::days(n))
checked_add_days(epoch, n) ==
    IF Abs(n) > DurationMaxDays THEN [class |-> "panic"]
    ELSE IF Abs(n) > NaiveDateMaxDays THEN [class |-> "None"]
    ELSE [class |-> "Some", date |-> civil_from_days(days_from_civil(epoch) + n)]

\* DateFormatter::format: days = floor(serial_value)
DateFormatter_format(serial_value, cfg, is_1904) ==
    LET epoch == IF is_1904 THEN <<1904, 1, 1>> ELSE <<1899, 12, 30>>
        days_offset == IF is_1904 THEN 0 ELSE 1
        days == serial_value \div 10
        added == checked_add_days(epoch, days + days_offset)
    IN  CASE added.class = "panic" -> [kind |-> "panic"]
          [] added.class = "None"  -> [kind |-> "Err", class |-> "Config"]
          [] OTHER -> [kind |-> "date", date |-> added.date,
                       date_format |-> cfg.date_format,
                       text |-> IF cfg.date_format = "Iso8601"
                                THEN iso8601(added.date)
                                ELSE <<"strftime", added.date>>]

(***************************************************************************)
(* format/parser.rs: the number format interpreter.  A format string is a  *)
(* sequence of characters and so is a rendered string.  A token is a       *)
(* record [t |-> kind] with n (a count) or s (a string) where the token    *)
(* of the code carries one.                                                *)
(***************************************************************************)
Letters ==
    {"y", "Y", "m", "M", "d", "D", "h", "H", "s", "S", "R", "G", "e", "n",
     "r", "a", "l", "E"}

\* FormatToken::is_datetime, FormatToken::is_numeric
Token_is_datetime(tok) ==
    tok.t \in {"Year", "Month", "Day", "Hour", "Minute", "Second"}
Token_is_numeric(tok) ==
    tok.t \in {"IntegerZero", "IntegerHash", "DecimalPoint", "DecimalZero",
               "ThousandSeparator", "Percent"}

\* FormatSection::is_datetime, FormatSection::is_numeric
Section_is_datetime(section) ==
    \E i \in 1..Len(section.tokens) : Token_is_datetime(section.tokens[i])
Section_is_numeric(section) ==
    \E i \in 1..Len(section.tokens) : Token_is_numeric(section.tokens[i])

\* FormatParser::split_sections, from character i on
RECURSIVE split_sections_from(_, _, _, _, _)
split_sections_from(str, i, sections, current, in_brackets) ==
    IF i > Len(str)
    THEN IF current # <<>> THEN Append(sections, current) ELSE sections
    ELSE LET ch == str[i] IN
         CASE ch = "[" ->
                split_sections_from(str, i + 1, sections, Append(current, ch), TRUE)
           [] ch = "]" ->
                split_sections_from(str, i + 1, sections, Append(current, ch), FALSE)
           [] ch = ";" /\ ~in_brackets ->
                split_sections_from(str, i + 1, Append(sections, current), <<>>,
                                    in_brackets)
           [] OTHER ->
                split_sections_from(str, i + 1, sections, Append(current, ch),
                                    in_brackets)

split_sections(str) == split_sections_from(str, 1, <<>>, <<>>, FALSE)

\* str::trim
RECURSIVE trim(_)
trim(str) ==
    IF str # <<>> /\ Head(str) = " " THEN trim(Tail(str))
    ELSE IF str # <<>> /\ str[Len(str)] = " " THEN trim(SubSeq(str, 1, Len(str) - 1))
    ELSE str

\* FormatParser::count_consecutive and count_consecutive_case_insensitive:
\* how many characters from position i on are in `targets`.
RECURSIVE count_consecutive(_, _, _)
count_consecutive(str, i, targets) ==
    IF i <= Len(str) /\ str[i] \in targets
    THEN 1 + count_consecutive(str, i + 1, targets) ELSE 0

\* The token a date or number character starts at position i, given the
\* tokens pushed so far, with the number of characters it consumes.
TokenAt(str, i, tokens) ==
    LET ch == str[i]
        run(targets) == count_consecutive(str, i + 1, targets)
        peek(k) == IF i + k + 1 <= Len(str) THEN str[i + k + 1] ELSE ""
    IN  CASE ch = "@" -> [tok |-> [t |-> "TextPlaceholder"], used |-> 1]
          [] ch = "0" ->
                LET count == run({"0"}) IN
                IF tokens = <<>> \/ tokens[Len(tokens)].t # "DecimalPoint"
                THEN [tok |-> [t |-> "IntegerZero", n |-> count + 1], used |-> count + 1]
                ELSE [tok |-> [t |-> "DecimalZero", n |-> count + 1], used |-> count + 1]
          [] ch = "#" -> [tok |-> [t |-> "IntegerHash"], used |-> 1]
          [] ch = "." -> [tok |-> [t |-> "DecimalPoint"], used |-> 1]
          [] ch = "," -> [tok |-> [t |-> "ThousandSeparator"], used |-> 1]
          [] ch = "%" -> [tok |-> [t |-> "Percent"], used |-> 1]
          [] ch \in {"y", "Y"} ->
                LET count == run({"y", "Y"}) IN
                [tok |-> [t |-> "Year", n |-> count + 1], used |-> count + 1]
          [] ch \in {"m", "M"} ->
                LET count == run({"m", "M"})
                    is_minute ==
                        \/ \E k \in 1..Len(tokens) : tokens[k].t = "Hour"
                        \/ peek(count) \in {":", "h", "H"}
                IN  [tok |-> [t |-> IF is_minute THEN "Minute" ELSE "Month",
                              n |-> count + 1],
                     used |-> count + 1]
          [] ch \in {"d", "D"} ->
                LET count == run({"d", "D"}) IN
                [tok |-> [t |-> "Day", n |-> count + 1], used |-> count + 1]
          [] ch \in {"h", "H"} ->
                LET count == run({"h", "H"}) IN
                [tok |-> [t |-> "Hour", n |-> count + 1], used |-> count + 1]
          [] ch \in {"s", "S"} ->
                LET count == run({"s", "S"}) IN
                [tok |-> [t |-> "Second", n |-> count + 1], used |-> count + 1]
          [] OTHER -> [tok |-> [t |-> "Literal", s |-> <<ch>>], used |-> 1]

\* FormatParser::parse_section: the tokens of a section, from character i
RECURSIVE parse_section_from(_, _, _, _, _, _)
parse_section_from(str, i, tokens, in_quotes, in_brackets, bracket_content) ==
    IF i > Len(str) THEN tokens
    ELSE LET ch == str[i] IN
         CASE ch = "\"" ->
                IF in_quotes /\ bracket_content # <<>>
                THEN parse_section_from(str, i + 1,
                        Append(tokens, [t |-> "Literal", s |-> bracket_content]),
                        FALSE, in_brackets, <<>>)
                ELSE parse_section_from(str, i + 1, tokens, ~in_quotes, in_brackets,
                                        bracket_content)
           [] ch = "[" /\ ~in_quotes ->
                parse_section_from(str, i + 1, tokens, in_quotes, TRUE, <<>>)
           [] ch = "]" /\ ~in_brackets ->
                parse_section_from(str, i + 1, tokens, in_quotes, in_brackets,
                                   bracket_content)
           [] ch = "]" /\ in_brackets ->
                parse_section_from(str, i + 1,
                    IF bracket_content # <<>> /\ Head(bracket_content) \in Letters
                    THEN Append(tokens, [t |-> "Color", s |-> bracket_content])
                    ELSE tokens,
                    in_quotes, FALSE, <<>>)
           [] ch \notin {"\"", "]"} /\ ~(ch = "[" /\ ~in_quotes)
                /\ (in_quotes \/ in_brackets) ->
                parse_section_from(str, i + 1, tokens, in_quotes, in_brackets,
                                   Append(bracket_content, ch))
           [] OTHER ->
                LET at == TokenAt(str, i, tokens) IN
                parse_section_from(str, i + at.used, Append(tokens, at.tok),
                                   in_quotes, in_brackets, bracket_content)

parse_section(section_str, kind) ==
    [kind |-> kind,
     tokens |-> parse_section_from(section_str, 1, <<>>, FALSE, FALSE, <<>>)]

\* FormatParser::parse: at most four sections; a default section when the
\* string has none.  parse_section has no failing path.
SectionKinds == <<"Positive", "Negative", "Zero", "Text">>
FormatParser_parse(format_string) ==
    LET section_strs == split_sections(format_string)
        n == IF Len(section_strs) < 4 THEN Len(section_strs) ELSE 4
        sections == [k \in 1..n |-> parse_section(trim(section_strs[k]), SectionKinds[k])]
    IN  IF sections = <<>> THEN <<[kind |-> "Positive", tokens |-> <<>>]>>
        ELSE sections

\* f64::to_string of a value held in tenths: "1", "1.5", "-1.5"
f64_to_string(value) ==
    (IF value < 0 THEN <<"-">> ELSE <<>>)
    \o u64_to_string(Abs(value) \div 10)
    \o (IF Abs(value) % 10 # 0 THEN <<".", DigitChars[(Abs(value) % 10) + 1]>>
        ELSE <<>>)

\* FormatParser::select_section
select_section(sections, value) ==
    IF value > 0 THEN sections[1]
    ELSE IF value < 0 THEN (IF Len(sections) >= 2 THEN sections[2] ELSE sections[1])
    ELSE (IF Len(sections) >= 3 THEN sections[3] ELSE sections[1])

\* FormatParser::add_thousand_separators
add_thousand_separators(str) ==
    Flatten([i \in 1..Len(str) |->
        IF (Len(str) - i) % 3 = 0 /\ i < Len(str) THEN <<str[i], ",">>
        ELSE <<str[i]>>])

RECURSIVE Zeros(_)
Zeros(n) == IF n <= 0 THEN <<>> ELSE <<"0">> \o Zeros(n - 1)

RECURSIVE Pow10(_)
Pow10(n) == IF n = 0 THEN 1 ELSE 10 * Pow10(n - 1)

RECURSIVE SumTokens(_, _, _)
SumTokens(tokens, kind, each) ==
    IF tokens = <<>> THEN 0
    ELSE (IF Head(tokens).t = kind
          THEN (IF each = 0 THEN Head(tokens).n ELSE each) ELSE 0)
         + SumTokens(Tail(tokens), kind, each)

\* The number of characters of str[from..] that are not a comma
NonCommas(str, from) ==
    Cardinality({k \in from..Len(str) : str[k] # ","})

\* FormatParser::format_numeric, the loop over the tokens from token k on:
\* result so far, and the positions in the integer and fraction digits.
RECURSIVE numeric_tokens(_, _, _, _, _, _, _)
numeric_tokens(tokens, k, out, int_chars, int_pos, frac_chars, frac_pos) ==
    IF k > Len(tokens) THEN out
    ELSE LET tok == tokens[k]
             rest_int == SubSeq(int_chars, int_pos + 1, Len(int_chars))
             next(r, ip, fp) ==
                 numeric_tokens(tokens, k + 1, r, int_chars, ip, frac_chars, fp)
         IN  CASE tok.t = "IntegerZero" ->
                    LET taken == NonCommas(rest_int, 1)
                        appended == out \o rest_int
                        at == Len(appended) - taken
                    IN  IF taken < tok.n
                        THEN next(SubSeq(appended, 1, at) \o Zeros(tok.n - taken)
                                  \o SubSeq(appended, at + 1, Len(appended)),
                                  Len(int_chars), frac_pos)
                        ELSE next(appended, Len(int_chars), frac_pos)
               [] tok.t = "IntegerHash" ->
                    IF int_pos < Len(int_chars)
                    THEN next(Append(out, int_chars[int_pos + 1]), int_pos + 1, frac_pos)
                    ELSE next(out, int_pos, frac_pos)
               [] tok.t = "DecimalPoint" -> next(Append(out, "."), int_pos, frac_pos)
               [] tok.t = "DecimalZero" ->
                    LET avail == Len(frac_chars) - frac_pos
                        taken == IF avail < tok.n THEN avail ELSE tok.n
                    IN  next(out \o SubSeq(frac_chars, frac_pos + 1, frac_pos + taken)
                                    \o Zeros(tok.n - taken),
                             int_pos, frac_pos + taken)
               [] tok.t = "Percent" -> next(Append(out, "%"), int_pos, frac_pos)
               [] tok.t = "Literal" -> next(out \o tok.s, int_pos, frac_pos)
               [] OTHER -> next(out, int_pos, frac_pos)

\* FormatParser::format_numeric.  With the value in tenths the rounding to
\* the decimal places of the format is exact for one place or more; with
\* no decimal place the fraction is dropped.
format_numeric(value, section) ==
    LET tokens == section.tokens
        has(kind) == \E k \in 1..Len(tokens) : tokens[k].t = kind
        total_integer_zeros ==
            SumTokens(tokens, "IntegerZero", 0) + SumTokens(tokens, "IntegerHash", 1)
        total_decimal_zeros == SumTokens(tokens, "DecimalZero", 0)
        display_value == IF has("Percent") THEN value * 100 ELSE value
        abs_value == Abs(display_value)
        int_part == abs_value \div 10
        int_str == IF total_integer_zeros > 0
                   THEN pad_zero(u64_to_string(int_part), total_integer_zeros)
                   ELSE u64_to_string(int_part)
        int_str_with_separator ==
            IF has("ThousandSeparator") THEN add_thousand_separators(int_str)
            ELSE int_str
        frac_str == IF has("DecimalPoint") /\ total_decimal_zeros > 0
                    THEN pad_zero(u64_to_string((abs_value % 10)
                                      * Pow10(total_decimal_zeros - 1)),
                                  total_decimal_zeros)
                    ELSE <<>>
        text == numeric_tokens(tokens, 1, <<>>, int_str_with_separator, 0,
                                 frac_str, 0)
    IN  [class |-> "Ok",
         s |-> IF display_value < 0 /\ section.kind = "Negative"
               THEN <<"-">> \o text ELSE text]

\* FormatParser::format_datetime, the text of one token.  A value in
\* tenths has fract() * 86400 = 8640 seconds per tenth; a negative
\* fraction casts to 0.
datetime_token(tok, date, value) ==
    LET frac == IF value < 0 THEN 0 ELSE value % 10
        seconds_in_day == frac * 8640
        hours == seconds_in_day \div 3600
        minutes == (seconds_in_day % 3600) \div 60
        seconds == seconds_in_day % 60
        two(n, count) == IF count >= 2 THEN pad_zero(u64_to_string(n), 2)
                         ELSE u64_to_string(n)
    IN  CASE tok.t = "Year" ->
                IF tok.n >= 4 THEN pad_zero(u64_to_string(date[1]), 4)
                ELSE pad_zero(u64_to_string(date[1] % 100), 2)
          [] tok.t = "Month"  -> two(date[2], tok.n)
          [] tok.t = "Day"    -> two(date[3], tok.n)
          [] tok.t = "Hour"   -> two(hours, tok.n)
          [] tok.t = "Minute" -> two(minutes, tok.n)
          [] tok.t = "Second" -> two(seconds, tok.n)
          [] tok.t = "Literal" -> tok.s
          [] OTHER -> <<>>

\* FormatParser::format_datetime: 1900 epoch, days = floor(value)
format_datetime(value, section) ==
    LET days == value \div 10
        added == checked_add_days(<<1899, 12, 30>>, days + 1)
    IN  CASE added.class = "panic" -> [class |-> "panic"]
          [] added.class = "None"  -> [class |-> "Err"]
          [] OTHER ->
                [class |-> "Ok",
                 s |-> Flatten([k \in 1..Len(section.tokens) |->
                          datetime_token(section.tokens[k], added.date, value)])]

\* FormatParser::format_number
format_number(sections, value) ==
    LET section == select_section(sections, value) IN
    IF Section_is_datetime(section) THEN format_datetime(value, section)
    ELSE IF Section_is_numeric(section) THEN format_numeric(value, section)
    ELSE [class |-> "Ok", s |-> f64_to_string(value)]

\* NumberFormatter::format: the interpreter's string, or value.to_string()
\* without a format string and when the interpreter returns an error.
NumberFormatter_format(value, format_string) ==
    IF format_string.some
    THEN LET r == format_number(FormatParser_parse(format_string.v), value) IN
         CASE r.class = "panic" -> [kind |-> "panic"]
           [] r.class = "Err"   -> [kind |-> "number", value |-> value,
                                    text |-> f64_to_string(value)]
           [] OTHER             -> [kind |-> "number", value |-> value, text |-> r.s]
    ELSE [kind |-> "number", value |-> value, text |-> f64_to_string(value)]

\* WorkbookParser::extract_cell_data_with_formula.  style_id is the
\* constant None; formula, hyperlink and rich_text are what the lookups
\* for the cell's coordinate return.
extract_cell_data_with_formula(c) ==
    LET value == CASE c.data = "Float" -> [kind |-> "Number", n |-> c.value]
                   [] c.data = "Int"   -> [kind |-> "Number", n |-> c.value]
                   [] OTHER            -> [kind |-> "Empty"]
        style_id == None
        found == [formula |-> c.formula, hyperlink |-> c.hyperlink,
                  rich_text |-> c.rich_text]
    IN  IF style_id.some
        THEN [value |-> value, format_id |-> Some(style_id.v),
              format_string |-> get_format_string(c)] @@ found
        ELSE [value |-> value, format_id |-> None, format_string |-> None] @@ found

\* CellFormatter::escape_markdown
escape_markdown(str) ==
    Flatten([i \in 1..Len(str) |->
        CASE str[i] = "\\" -> <<"\\", "\\">>
          [] str[i] = "|"  -> <<"\\", "|">>
          [] str[i] = "\n" -> <<"<", "b", "r", ">">>
          [] OTHER         -> <<str[i]>>])

\* CellFormatter::format_rich_text
format_rich_text(segments) ==
    Flatten([i \in 1..Len(segments) |->
        LET text == escape_markdown(segments[i].text)
            marker == CASE segments[i].bold /\ segments[i].italic -> <<"*", "*", "*">>
                        [] segments[i].bold   -> <<"*", "*">>
                        [] segments[i].italic -> <<"*">>
                        [] OTHER              -> <<>>
        IN  marker \o text \o marker])

\* CellFormatter::format_cell, step 2: the match on raw_cell.value
formatted_value(raw, cfg, is_1904) ==
    CASE raw.value.kind = "Number" ->
            IF is_date_value(raw.format_id, raw.format_string)
            THEN DateFormatter_format(raw.value.n, cfg, is_1904)
            ELSE NumberFormatter_format(raw.value.n, raw.format_string)
      [] raw.value.kind = "String" ->
            [kind |-> "text",
             text |-> IF raw.rich_text.some THEN format_rich_text(raw.rich_text.v)
                      ELSE escape_markdown(raw.value.s)]
      [] raw.value.kind = "Bool" ->
            [kind |-> "text",
             text |-> IF raw.value.b THEN <<"T", "R", "U", "E">>
                      ELSE <<"F", "A", "L", "S", "E">>]
      [] raw.value.kind = "Error" -> [kind |-> "text", text |-> raw.value.e]
      [] raw.value.kind = "Empty" -> [kind |-> "text", text |-> EmptyText]

\* CellFormatter::format_cell.  A link is held as its display text and
\* its url, for "[display](url)".
format_cell(raw, cfg, is_1904) ==
    IF cfg.formula_mode = "Formula" /\ raw.formula.some
    THEN [kind |-> "text", text |-> raw.formula.v]
    ELSE LET value_text == formatted_value(raw, cfg, is_1904) IN
         IF value_text.kind \in {"panic", "Err"} THEN value_text
         ELSE IF raw.hyperlink.some
         THEN [kind |-> "link",
               display |-> IF value_text.text = EmptyText THEN raw.hyperlink.v
                           ELSE value_text.text,
               url |-> raw.hyperlink.v]
         ELSE value_text

NumFmtIds == {0, 2, 13, 14, 22, 23, 45, 47, 48, 164}
FormatCodes ==
    {<<"0", ".", "0">>, <<"Y", "Y", "Y", "Y">>, <<"h", "h">>, <<"D", "D">>,
     <<"M", "m">>, <<"#">>}

\* The cell's style resolves to a date format: numFmtId 14..22 or 45..47,
\* or a format string whose lower-cased form holds yy, mm, dd or hh.
StyleIsDate(c) == is_date_value(Some(c.num_fmt_id), get_format_string(c))

\* The cells of a worksheet: a number v with a style, without formula,
\* hyperlink or rich text.  The workbook reader
\* hands the number over as Float or Int, or, for a date style, as
\* DateTime.
XlsxCells ==
    {c \in [value : {5 * k : k \in 0..(2 * MaxSerial)}, num_fmt_id : NumFmtIds,
            format_code : {None} \cup {Some(f) : f \in FormatCodes},
            data : {"Float", "Int", "DateTime"}, is_1904 : BOOLEAN,
            formula : {None}, hyperlink : {None}, rich_text : {None}] :
        /\ c.format_code.some <=> c.num_fmt_id >= 164
        /\ c.data = "DateTime" => StyleIsDate(c)
        /\ c.data = "Int" => c.value % 10 = 0}

InitCell ==
    /\ xlsx_cell \in XlsxCells
    /\ cconfig \in [date_format : {"Iso8601", "Custom"},
                    formula_mode : {"CachedValue", "Formula"}]
    /\ cpc = "start"
    /\ raw_cell = <<>>
    /\ formatted = <<>>
    /\ IdlePath /\ IdleGate /\ IdleConv /\ IdleGrid /\ IdleSheet /\ IdleFn

\* parse_sheet: extract_cell_data_with_formula(coord, cell, ...)
ExtractCell ==
    /\ cpc = "start"
    /\ raw_cell' = extract_cell_data_with_formula(xlsx_cell)
    /\ cpc' = "extracted"
    /\ UNCHANGED <<xlsx_cell, cconfig, formatted, otherThanCell>>

\* convert: formatter.format_cell(raw_cell, &config, metadata.is_1904)
FormatCell ==
    /\ cpc = "extracted"
    /\ formatted' = format_cell(raw_cell, cconfig, xlsx_cell.is_1904)
    /\ cpc' = "formatted"
    /\ UNCHANGED <<xlsx_cell, cconfig, raw_cell, otherThanCell>>

NextCell == ExtractCell \/ FormatCell

SpecCell == InitCell /\ [][NextCell]_vars

\* C10: in a conversion a Number cell is rendered as a date if and only if
\* its style resolves to a numFmtId in 14..22 or 45..47 or to a format
\* string whose lower-cased form holds yy, mm, dd or hh; a Number without
\* that evidence is rendered as a number.
C10_DateIffStyleIsDate ==
    cpc = "formatted" =>
        /\ formatted.kind = "date" <=> StyleIsDate(xlsx_cell)
        /\ ~StyleIsDate(xlsx_cell) => formatted.kind = "number"

(***************************************************************************)
(* SpecFormat: NumberFormatter::format applied once to a format string of  *)
(* up to MaxFormatLen characters and a finite value (in tenths).           *)
(***************************************************************************)
MaxFormatLen == 3

FormatChars ==
    {"0", "#", ".", ",", "%", "y", "m", "h", ";", "-", "[", "]", "R", "\""}

\* Values around zero, one with four integer digits, and values whose
\* day count is beyond NaiveDateMaxDays and beyond DurationMaxDays.
FormatValues ==
    {0 - 15000000, 0 - 15, 0, 5, 10, 12345, 2000000, 15000000}

InitFormat ==
    /\ args \in [format_string : SeqsUpTo(FormatChars, MaxFormatLen),
                 value : FormatValues]
    /\ apc = "format"
    /\ ret = <<>>
    /\ IdlePath /\ IdleGate /\ IdleConv /\ IdleGrid /\ IdleSheet /\ IdleCell

\* format_cell: self.number_formatter.format(*n, &raw_cell.format_string)
FormatNumber ==
    /\ apc = "format"
    /\ ret' = NumberFormatter_format(args.value, Some(args.format_string))
    /\ apc' = "format:done"
    /\ UNCHANGED <<args, otherThanFn>>

NextFormat == FormatNumber

SpecFormat == InitFormat /\ [][NextFormat]_vars

\* C11: for every format string and every finite value, formatting a
\* Number through the interpreter does not panic, returns no error, and
\* yields a non-empty string.
C11_FormatNeverPanicsNorEmpty ==
    apc = "format:done" =>
        /\ ret.kind = "number"
        /\ ret.text # <<>>

\* C25: with a single numeric section, a negative value v is rendered as
\* the section's rendering of |v| with a minus sign before it.
C25_SingleSectionNegativeGetsMinus ==
    apc = "format:done" =>
        LET sections == FormatParser_parse(args.format_string) IN
        (/\ args.value < 0
         /\ Len(sections) = 1
         /\ Section_is_numeric(sections[1])
         /\ ~Section_is_datetime(sections[1])) =>
            /\ ret.kind = "number"
            /\ ret.text = <<"-">> \o format_numeric(Abs(args.value), sections[1]).s

HasMinusLiteral(section) ==
    \E k \in 1..Len(section.tokens) :
        /\ section.tokens[k].t = "Literal"
        /\ Contains(section.tokens[k].s, <<"-">>)

\* C26: a negative value rendered by an explicit Negative section gets a
\* minus sign before the section's output only if the section holds no
\* minus literal, so the result never carries two minus signs.
C26_NoSecondMinusSign ==
    apc = "format:done" =>
        LET sections == FormatParser_parse(args.format_string) IN
        (/\ args.value < 0
         /\ Len(sections) >= 2
         /\ Section_is_numeric(sections[2])
         /\ ~Section_is_datetime(sections[2])) =>
            /\ ret.kind = "number"
            /\ ret.text = IF HasMinusLiteral(sections[2])
                          THEN format_numeric(Abs(args.value), sections[2]).s
                          ELSE <<"-">> \o format_numeric(Abs(args.value), sections[2]).s

(***************************************************************************)
(* SpecDate: DateFormatter::format applied to two serial values s1 < s2    *)
(* (in tenths) that lie in the same day or in days at most MaxGapDays      *)
(* apart, under both epochs.  Every pair of [0, MaxSerialDays) is linked   *)
(* by a chain of such pairs.                                               *)
(***************************************************************************)
MaxSerialDays == 50000
MaxGapDays == 1

SerialPairs ==
    {p \in [day : 0..(MaxSerialDays - 1), gap : 0..MaxGapDays,
            frac1 : {0, 5}, frac2 : {0, 5}] :
        /\ p.day + p.gap < MaxSerialDays
        /\ 10 * p.day + p.frac1 < 10 * (p.day + p.gap) + p.frac2}

InitDate ==
    /\ \E p \in SerialPairs, e \in BOOLEAN :
           args = [s1 |-> 10 * p.day + p.frac1,
                   s2 |-> 10 * (p.day + p.gap) + p.frac2, is_1904 |-> e]
    /\ apc = "date"
    /\ ret = <<>>
    /\ IdlePath /\ IdleGate /\ IdleConv /\ IdleGrid /\ IdleSheet /\ IdleCell

\* formatter.format(serial1, &config, is_1904), formatter.format(serial2, ..)
RenderDates ==
    /\ apc = "date"
    /\ ret' = <<DateFormatter_format(args.s1, [date_format |-> "Iso8601"], args.is_1904),
                DateFormatter_format(args.s2, [date_format |-> "Iso8601"], args.is_1904)>>
    /\ apc' = "date:done"
    /\ UNCHANGED <<args, otherThanFn>>

NextDate == RenderDates

SpecDate == InitDate /\ [][NextDate]_vars

SheetNameSet == {"A", "B", "C"}

Workbooks ==
    {w \in SeqsUpTo(SheetNameSet, MaxSheets) \ {<<>>} :
        \A i, j \in 1..Len(w) : i # j => w[i] # w[j]}

AllSelectors ==
    Selectors
    \cup {[kind |-> "Indices", indices |-> <<>>], [kind |-> "Names", names |-> <<>>]}
    \cup {[kind |-> "Name", name |-> n] : n \in SheetNameSet}
    \cup {[kind |-> "Names", names |-> l] :
              l \in SeqsUpTo(SheetNameSet, MaxSel) \ {<<>>}}

InitSelect ==
    /\ args \in [selector : AllSelectors, all_sheet_names : Workbooks]
    /\ apc = "select"
    /\ ret = <<>>
    /\ IdlePath /\ IdleGate /\ IdleConv /\ IdleGrid /\ IdleSheet /\ IdleCell

\* convert: parser.select_sheets(&self.config.sheet_selector, include_hidden)
SelectOnce ==
    /\ apc = "select"
    /\ ret' = select_sheets(args.selector, args.all_sheet_names)
    /\ apc' = "select:done"
    /\ UNCHANGED <<args, otherThanFn>>

NextSelect == SelectOnce

SpecSelect == InitSelect /\ [][NextSelect]_vars

\* The requested indices that are out of range and the requested names
\* that are not sheets of the workbook.
Offenders(selector, all_sheet_names) ==
    CASE selector.kind = "All" -> {}
      [] selector.kind = "Index" ->
            {<<"index", i>> : i \in {selector.index} \ (0..(Len(all_sheet_names) - 1))}
      [] selector.kind = "Indices" ->
            {<<"index", i>> :
                i \in SeqRange(selector.indices) \ (0..(Len(all_sheet_names) - 1))}
      [] selector.kind = "Name" ->
            {<<"name", n>> : n \in {selector.name} \ SeqRange(all_sheet_names)}
      [] selector.kind = "Names" ->
            {<<"name", n>> : n \in SeqRange(selector.names) \ SeqRange(all_sheet_names)}

\* The sheets a selector asks for, in the order it asks for them.
Requested(selector, all_sheet_names) ==
    CASE selector.kind = "All" -> all_sheet_names
      [] selector.kind = "Index" -> <<all_sheet_names[selector.index + 1]>>
      [] selector.kind = "Indices" ->
            [k \in 1..Len(selector.indices) |-> all_sheet_names[selector.indices[k] + 1]]
      [] selector.kind = "Name" -> <<selector.name>>
      [] selector.kind = "Names" -> selector.names

MaxRangeIndex == 2  \* largest row or column index given to with_range

RangeCoords == (0..MaxRangeIndex) \X (0..MaxRangeIndex)

\* DateFormat: Iso8601, or Custom with a format string that is empty, a
\* valid specifier, or a specifier the date library does not know.
DateFormats ==
    {[kind |-> "Iso8601"]}
    \cup {[kind |-> "Custom", format_str |-> f] : f \in {<<>>, <<"%Y">>, <<"%Q">>}}

\* test_date.format(format_str).to_string() for 2025-01-01: to_string
\* panics when the format holds an unknown specifier.
format_test_date(format_str) ==
    CASE format_str = <<>>     -> [panic |-> FALSE, text |-> <<>>]
      [] format_str = <<"%Y">> -> [panic |-> FALSE, text |-> <<"2", "0", "2", "5">>]
      [] OTHER                 -> [panic |-> TRUE]

build_rows_only(builder_config) ==
    IF /\ builder_config.range.some
       /\ builder_config.range.v.start[1] > builder_config.range.v.end[1]
    THEN [kind |-> "Err", class |-> "Config", detail |-> "start row"]
    ELSE IF builder_config.date_format.kind = "Custom"
    THEN LET test_text == format_test_date(builder_config.date_format.format_str) IN
         IF test_text.panic THEN [kind |-> "panic"]
         ELSE IF test_text.text = <<>>
         THEN [kind |-> "Err", class |-> "Config", detail |-> "date format"]
         ELSE [kind |-> "Ok", config |-> builder_config]
    ELSE [kind |-> "Ok", config |-> builder_config]

\* ConverterBuilder::build
build_converter(builder_config) ==
    IF /\ builder_config.range.some
       /\ builder_config.range.v.start[1] > builder_config.range.v.end[1]
    THEN [kind |-> "Err", class |-> "Config", detail |-> "start row"]
    ELSE IF /\ builder_config.range.some
            /\ builder_config.range.v.start[2] > builder_config.range.v.end[2]
    THEN [kind |-> "Err", class |-> "Config", detail |-> "start col"]
    ELSE IF builder_config.date_format.kind = "Custom"
    THEN LET test_text == format_test_date(builder_config.date_format.format_str) IN
         IF test_text.panic THEN [kind |-> "panic"]
         ELSE IF test_text.text = <<>>
         THEN [kind |-> "Err", class |-> "Config", detail |-> "date format"]
         ELSE [kind |-> "Ok", config |-> builder_config]
    ELSE [kind |-> "Ok", config |-> builder_config]

\* ConverterBuilder::new: ConversionConfig::default()
InitBuild ==
    /\ args = [range |-> None, date_format |-> [kind |-> "Iso8601"]]
    /\ apc = "builder"
    /\ ret = <<>>
    /\ IdlePath /\ IdleGate /\ IdleConv /\ IdleGrid /\ IdleSheet /\ IdleCell

\* ConverterBuilder::with_range
WithRange(start, end) ==
    /\ apc = "builder"
    /\ args' = [args EXCEPT !.range = Some([start |-> start, end |-> end])]
    /\ UNCHANGED <<apc, ret, otherThanFn>>

\* ConverterBuilder::with_date_format
WithDateFormat(format) ==
    /\ apc = "builder"
    /\ args' = [args EXCEPT !.date_format = format]
    /\ UNCHANGED <<apc, ret, otherThanFn>>

Build ==
    /\ apc = "builder"
    /\ ret' = build_converter(args)
    /\ apc' = "build:done"
    /\ UNCHANGED <<args, otherThanFn>>

NextBuild ==
    \/ \E start \in RangeCoords, end \in RangeCoords : WithRange(start, end)
    \/ \E format \in DateFormats : WithDateFormat(format)
    \/ Build

SpecBuild == InitBuild /\ [][NextBuild]_vars

\* C16: with the date format at its default, build fails, with a Config
\* error, exactly when the configured range has start row > end row or
\* start column > end column; every other range and no range build.
C16_BuildFailsIffRangeInverted ==
    (apc = "build:done" /\ args.date_format.kind = "Iso8601") =>
        LET inverted == /\ args.range.some
                        /\ \/ args.range.v.start[1] > args.range.v.end[1]
                           \/ args.range.v.start[2] > args.range.v.end[2]
        IN  /\ inverted => ret.kind = "Err" /\ ret.class = "Config"
            /\ ~inverted => ret.kind = "Ok" /\ ret.config = args

\* C16 witness: a range whose rows are in order and whose columns are not
\* was refused; the date format is the default.
C16_Witness ==
    /\ apc = "build:done"
    /\ args.date_format.kind = "Iso8601"
    /\ args.range.some
    /\ args.range.v.start[1] <= args.range.v.end[1]
    /\ args.range.v.start[2] > args.range.v.end[2]
    /\ ret.kind = "Err"

(***************************************************************************)
(* SpecMarkdown: LogicalGrid::render_markdown at the level of characters.  *)
(* A content is a sequence of characters: "a" a narrow one, "W" an         *)
(* East-Asian wide one, " " white space.  A line is the sequence of the    *)
(* strings written between its pipes.                                      *)
(***************************************************************************)
MaxContentLen == 2  \* characters of a cell content
MaxTableCols == 2   \* columns of a rendered table

ContentChars == {"a", "W", " "}

RECURSIVE width_as_chars_count(_)
width_as_chars_count(str) ==
    IF str = <<>> THEN 0 ELSE 1 + width_as_chars_count(Tail(str))

\* UnicodeWidthStr::width
RECURSIVE width(_)
width(str) ==
    IF str = <<>> THEN 0
    ELSE (IF Head(str) = "W" THEN 2 ELSE 1) + width(Tail(str))

Repeat(ch, n) == [i \in 1..n |-> ch]

\* LogicalGrid::calculate_column_widths
calculate_column_widths(g) ==
    [c \in 1..g.cols |->
        Max({3} \cup {width(trim(g.cells[<<r - 1, c - 1>>].content)) : r \in 1..g.rows})]

\* LogicalGrid::generate_separator
generate_separator(col_widths) ==
    [kind |-> "separator",
     cells |-> [c \in 1..Len(col_widths) |-> Repeat("-", col_widths[c] + 2)]]

\* render_markdown, the inner loop: what is written for one cell
markdown_cell(content, col_width) ==
    LET trimmed_content == trim(content)
        content_width == width(trimmed_content)
    IN  <<" ">> \o trimmed_content
        \o (IF content_width < col_width
            THEN Repeat(" ", col_width - content_width) ELSE <<>>)
        \o <<" ">>

render_markdown_lines(g) ==
    IF g.rows = 0 \/ g.cols = 0 THEN <<>>
    ELSE LET col_widths == calculate_column_widths(g)
             separator == generate_separator(col_widths)
         IN  Flatten([r \in 1..g.rows |->
                 <<[kind |-> "row",
                    cells |-> [c \in 1..g.cols |->
                        markdown_cell(g.cells[<<r - 1, c - 1>>].content, col_widths[c])]]>>
                 \o (IF r = 1 THEN <<separator>> ELSE <<>>)])

Tables ==
    UNION {[rows : {rs}, cols : {cs}, panic : {FALSE},
            cells : [(0..(rs - 1)) \X (0..(cs - 1)) ->
                        {Cell_new(t) : t \in SeqsUpTo(ContentChars, MaxContentLen)}]] :
           rs \in 1..(MaxRow + 1), cs \in 1..MaxTableCols}

InitMarkdown ==
    /\ args \in Tables
    /\ apc = "markdown"
    /\ ret = <<>>
    /\ IdlePath /\ IdleGate /\ IdleConv /\ IdleGrid /\ IdleSheet /\ IdleCell

RenderMarkdown ==
    /\ apc = "markdown"
    /\ ret' = render_markdown_lines(args)
    /\ apc' = "markdown:done"
    /\ UNCHANGED <<args, otherThanFn>>

NextMarkdown == RenderMarkdown

SpecMarkdown == InitMarkdown /\ [][NextMarkdown]_vars

\* The display cells a string takes: two for a wide character, one for
\* any other.
DisplayCells(str) == Len(str) + Cardinality({i \in 1..Len(str) : str[i] = "W"})

\* C18: in every column the cell of the separator row, of the header row
\* and of every data row takes the same number of display cells, a wide
\* character counting as two: max(3, widest trimmed content) plus 2.
C18_ColumnWidthsAgree ==
    apc = "markdown:done" =>
        \A c \in 1..args.cols :
            LET widest == Max({3} \cup {DisplayCells(trim(args.cells[<<r, c - 1>>].content)) :
                                           r \in 0..(args.rows - 1)})
            IN  \A i \in 1..Len(ret) : DisplayCells(ret[i].cells[c]) = widest + 2

\* C18 witness: a column whose header is narrow and whose data row holds
\* two wide characters was rendered six display cells wide.
C18_Witness ==
    /\ apc = "markdown:done"
    /\ args.rows = 2
    /\ args.cells[<<0, 0>>].content = <<"a">>
    /\ args.cells[<<1, 0>>].content = <<"W", "W">>
    /\ Len(ret) = 3
    /\ ret[1].cells[1] = <<" ", "a", " ", " ", " ", " ">>
    /\ ret[2].cells[1] = <<"-", "-", "-", "-", "-", "-">>
    /\ ret[3].cells[1] = <<" ", "W", "W", " ">>

(***************************************************************************)
(* SpecA1: CellCoord::to_a1_notation followed by the decoder's             *)
(* parse_cell_ref.  An A1 string is a sequence of characters.              *)
(***************************************************************************)
MaxCoord == 9999    \* largest row or column index of the round trip

UpperLetters ==
    <<"A", "B", "C", "D", "E", "F", "G", "H", "I", "J", "K", "L", "M",
      "N", "O", "P", "Q", "R", "S", "T", "U", "V", "W", "X", "Y", "Z">>

\* (ch as u32) - ('A' as u32) for an upper-case letter
LetterIndex(ch) == CHOOSE k \in 0..25 : UpperLetters[k + 1] = ch

is_ascii_alphabetic(ch) == \E k \in 1..26 : UpperLetters[k] = ch
is_ascii_digit(ch) == \E k \in 1..10 : DigitChars[k] = ch

RECURSIVE col_letters_without_carry(_, _)
col_letters_without_carry(col, out) ==
    LET remainder == col % 26
        pushed == <<UpperLetters[remainder + 1]>> \o out
    IN  IF col < 26 THEN pushed ELSE col_letters_without_carry(col \div 26, pushed)

\* CellCoord::col_index_to_letter, the loop: `out` is `result` so far
RECURSIVE col_letters(_, _)
col_letters(col, out) ==
    LET remainder == col % 26
        pushed == <<UpperLetters[remainder + 1]>> \o out
    IN  IF col < 26 THEN pushed ELSE col_letters(col \div 26 - 1, pushed)

col_index_to_letter(col) == col_letters(col, <<>>)

\* CellCoord::to_a1_notation
to_a1_notation(row, col) == col_index_to_letter(col) \o u64_to_string(row + 1)

\* str::parse::<u32> of a string of digits
RECURSIVE parse_u32(_)
parse_u32(str) ==
    IF str = <<>> THEN 0
    ELSE 10 * parse_u32(SubSeq(str, 1, Len(str) - 1))
         + (CHOOSE k \in 0..9 : DigitChars[k + 1] = str[Len(str)])

\* The sum over col_str.chars().rev().enumerate() of val * 26^i
RECURSIVE col_value(_)
col_value(col_str) ==
    IF col_str = <<>> THEN 0
    ELSE 26 * col_value(SubSeq(col_str, 1, Len(col_str) - 1))
         + LetterIndex(col_str[Len(col_str)]) + 1

\* XlsxMetadataParser::parse_cell_ref.  The row "0" underflows the
\* subtraction.
parse_cell_ref(ref_str) ==
    LET col_str == SelectSeq(ref_str, is_ascii_alphabetic)
        row_str == SelectSeq(ref_str, is_ascii_digit)
    IN  IF col_str = <<>> \/ row_str = <<>> THEN None
        ELSE IF parse_u32(row_str) = 0 THEN [some |-> FALSE, panic |-> TRUE]
        ELSE Some(<<parse_u32(row_str) - 1, col_value(col_str) - 1>>)

\* The coordinates of the round trip: every row with columns at the
\* letter-count boundaries, and every column with rows at the digit-count
\* boundaries.
BoundaryCols == {0, 25, 26, 701, 702, MaxCoord}
BoundaryRows == {0, 8, 9, 98, 99, 998, 999, MaxCoord}

InitA1 ==
    /\ args \in [row : 0..MaxCoord, col : BoundaryCols]
                \cup [row : BoundaryRows, col : 0..MaxCoord]
    /\ apc = "a1"
    /\ ret = <<>>
    /\ IdlePath /\ IdleGate /\ IdleConv /\ IdleGrid /\ IdleSheet /\ IdleCell

RoundTrip ==
    /\ apc = "a1"
    /\ ret' = [a1 |-> to_a1_notation(args.row, args.col),
               parsed |-> parse_cell_ref(to_a1_notation(args.row, args.col))]
    /\ apc' = "a1:done"
    /\ UNCHANGED <<args, otherThanFn>>

NextA1 == RoundTrip

SpecA1 == InitA1 /\ [][NextA1]_vars

\* C19: for row, col < 10 000, parse_cell_ref of the string that
\* to_a1_notation gives for (row, col) is (row, col).
C19_A1RoundTrip ==
    apc = "a1:done" => ret.parsed = Some(<<args.row, args.col>>)

\* C19 witness: row 9 of column 702, the first of three letters, was
\* written AAA10 and read back.
C19_Witness ==
    /\ apc = "a1:done"
    /\ args = [row |-> 9, col |-> 702]
    /\ ret.a1 = <<"A", "A", "A", "1", "0">>
    /\ ret.parsed = Some(<<9, 702>>)

(***************************************************************************)
(* SpecFormatCell: CellFormatter::format_cell applied once to a RawCell    *)
(* of any value kind, with or without a formula, a hyperlink and rich      *)
(* text, under both formula modes.                                         *)
(***************************************************************************)
CellTexts == {<<>>, <<"a">>, <<"|">>}
FormulaText == <<"=", "A", "1">>
Url == <<"u", "r", "l">>

CellValues ==
    {[kind |-> "Number", n |-> n] : n \in {0, 15}}
    \cup {[kind |-> "String", s |-> t] : t \in CellTexts}
    \cup {[kind |-> "Bool", b |-> b] : b \in BOOLEAN}
    \cup {[kind |-> "Error", e |-> <<"D", "i", "v", "0">>], [kind |-> "Empty"]}

RichTexts ==
    {None, Some(<<[text |-> <<"a">>, bold |-> TRUE, italic |-> FALSE]>>)}

\* RawCellData as extract_cell_data_with_formula returns it: format_id
\* and format_string are None; rich text goes with a string value.
RawCells ==
    {raw \in [value : CellValues, format_id : {None}, format_string : {None},
              formula : {None, Some(FormulaText)}, hyperlink : {None, Some(Url)},
              rich_text : RichTexts] :
        raw.rich_text.some => raw.value.kind = "String"}

InitFormatCell ==
    /\ args \in [raw_cell : RawCells,
                 config : [date_format : {"Iso8601"},
                           formula_mode : {"CachedValue", "Formula"}]]
    /\ apc = "cell"
    /\ ret = <<>>
    /\ IdlePath /\ IdleGate /\ IdleConv /\ IdleGrid /\ IdleSheet /\ IdleCell

\* convert: formatter.format_cell(raw_cell, &self.config, metadata.is_1904)
FormatRawCell ==
    /\ apc = "cell"
    /\ ret' = format_cell(args.raw_cell, args.config, FALSE)
    /\ apc' = "cell:done"
    /\ UNCHANGED <<args, otherThanFn>>

NextFormatCell == FormatRawCell

SpecFormatCell == InitFormatCell /\ [][NextFormatCell]_vars

\* The display text of the classification rules: the raw formula text in
\* formula-text mode for a cell with a formula, otherwise the rendering
\* of the cached value.
DisplayText(raw, cfg) ==
    IF cfg.formula_mode = "Formula" /\ raw.formula.some THEN raw.formula.v
    ELSE formatted_value(raw, cfg, FALSE).text

\* C27: a cell with a hyperlink url is rendered [displayText](url), the
\* url standing in for an empty displayText, whichever rule produced the
\* displayText, formula-text mode on a cell with a formula included.
C27_HyperlinkAlwaysWrapped ==
    apc = "cell:done" =>
        (args.raw_cell.hyperlink.some =>
            LET text == DisplayText(args.raw_cell, args.config) IN
            /\ ret.kind = "link"
            /\ ret.url = args.raw_cell.hyperlink.v
            /\ ret.display = IF text = EmptyText THEN args.raw_cell.hyperlink.v ELSE text)

(***************************************************************************)
(* SpecShared: one cell written <c t="s"><v>index</v></c> against the      *)
(* si elements of xl/sharedStrings.xml, from the decoder's table and the   *)
(* workbook reader's value to the string format_cell returns.              *)
(***************************************************************************)
MaxShared == 2      \* si elements of the shared-strings part

SharedTexts == {<<>>, <<"a">>, <<"b">>}

\* XlsxMetadataParser::parse_shared_strings, for si elements holding one
\* t element: the index is the position in document order, and an si
\* whose text is empty inserts nothing.
parse_shared_strings(si) ==
    [i \in {i \in 0..(Len(si) - 1) : si[i + 1] # <<>>} |->
        <<[text |-> si[i + 1], bold |-> FALSE, italic |-> FALSE]>>]

\* What the workbook reader hands over for the cell: the string at the
\* index, or, for an index past its table, the outcome `past_table` (an
\* error or a panic; the reader is not part of this repository).
worksheet_range_cell(si, index, past_table) ==
    IF index < Len(si) THEN [kind |-> "String", s |-> si[index + 1]]
    ELSE [kind |-> past_table]

\* extract_cell_data_with_formula, the rich-text lookup:
\* cell_string_indices.get(coord).and_then(|index| shared_strings.get(index))
rich_text_lookup(table, index) ==
    IF index \in DOMAIN table THEN Some(table[index]) ELSE None

InitShared ==
    /\ args \in [si : SeqsUpTo(SharedTexts, MaxShared), index : 0..MaxShared,
                 past_table : {"Err", "panic"}]
    /\ apc = "shared"
    /\ ret = <<>>
    /\ IdlePath /\ IdleGate /\ IdleConv /\ IdleGrid /\ IdleSheet /\ IdleCell

\* One sheet task for the cell: parse_sheet (worksheet_range, then
\* extract_cell_data_with_formula) and format_cell.
ConvertSharedCell ==
    /\ apc = "shared"
    /\ LET cell == worksheet_range_cell(args.si, args.index, args.past_table)
           raw == [value |-> cell, format_id |-> None, format_string |-> None,
                   formula |-> None, hyperlink |-> None,
                   rich_text |-> rich_text_lookup(parse_shared_strings(args.si),
                                                  args.index)]
       IN  ret' = CASE cell.kind = "Err"   -> [kind |-> "Err", class |-> "Parse"]
                    [] cell.kind = "panic" -> [kind |-> "panic"]
                    [] OTHER -> format_cell(raw, [date_format |-> "Iso8601",
                                                  formula_mode |-> "CachedValue"], FALSE)
    /\ apc' = "shared:done"
    /\ UNCHANGED <<args, otherThanFn>>

NextShared == ConvertSharedCell

SpecShared == InitShared /\ [][NextShared]_vars

\* C28: a cell whose shared-string index has no entry in the
\* shared-string table makes the conversion fail with a parse fault; it
\* is never rendered from another value.
C28_UnresolvedIndexIsParseFault ==
    apc = "shared:done" =>
        (args.index \notin DOMAIN parse_shared_strings(args.si) =>
            ret.kind = "Err" /\ ret.class = "Parse")

====
